---- MODULE Spec2Model ----
(***************************************************************************)
(* Model of SpawnCliRunner (src/cli/spawnCliRunner.ts): one run of an      *)
(* external CLI process, its line framing, event parsing, cancellation and *)
(* resolution.  The vendor plugged into the abstract runner is the Claude  *)
(* runner (src/participants/feature/claude.ts).                            *)
(*                                                                         *)
(* Seven specifications:                                                   *)
(*   Spec       one run, from run() to the events of its child process     *)
(*   SpecParse  parseLineWithSession of the Claude, Gemini and Codex       *)
(*              runners on one line and the line that follows it           *)
(*   SpecTwo    two runs in flight on one runner                           *)
(*   SpecArgs   one argument vector: buildCliOptions, escapeShellArg and   *)
(*              the arguments the child receives from the shell            *)
(*   SpecStore  one SessionStore and its file (src/cli/session/store.ts)   *)
(*   SpecChat   the turns of one chat: the participant handler, /session,  *)
(*              /handoff and the markers of ChatSessionManager             *)
(*   SpecExec   one call of executeCommand: its timer and the 'error' and  *)
(*              'close' events of its child                                *)
(*                                                                         *)
(* Text is a sequence of one-symbol strings.  A stream is a sequence of    *)
(* BYTES; "C3" and "A9" are the two bytes of the UTF-8 encoding of U+00E9, *)
(* every other byte is ASCII.  A decoded string is a sequence of CHARS;    *)
(* "E9" is U+00E9 and "FFFD" is the replacement character.                 *)
(*                                                                         *)
(* JSON envelopes are written in an abbreviated form, one symbol per JSON  *)
(* token:   "{" TYPE ITEM* [ "#" session_id ] "}"                          *)
(*   TYPE  "A" type:"assistant"   "S" type:"system"   "R" type:"result"    *)
(*         "X" a type the variant does not know                            *)
(*   ITEM  "t" text   {type:"text", text: text}                            *)
(*         "u" name   {type:"tool_use", name: name}                        *)
(*         "r" text   {type:"tool_result", content: text}                  *)
(*   text, name, session_id: runs of string characters (possibly empty)    *)
(***************************************************************************)
EXTENDS Integers, Sequences, FiniteSets, TLC

\* ------------------------------------------------------------------------
\* Alphabet
\* ------------------------------------------------------------------------
LF == "\n"
SP == " "
ESC == "ESC"

\* value of an absent optional string (undefined)
Undefined == <<"undefined">>

StringChars == {"a", "b", "E9", "FFFD"}
Digits == {"0", ";"}
Letters == {"A", "S", "R", "X", "I", "M", "U", "V", "T", "B", "C",
            "t", "u", "r", "a", "b", "m", "g", "c", "e", "p", "d", "f", "n"}

\* ------------------------------------------------------------------------
\* Buffer.toString(): UTF-8 decoding of ONE chunk.  A lead byte that is not
\* followed by its continuation byte inside the same chunk, and a
\* continuation byte without a lead byte, each decode to U+FFFD.
\* ------------------------------------------------------------------------
RECURSIVE toString(_)
toString(chunk) ==
  IF chunk = <<>> THEN <<>>
  ELSE IF Head(chunk) = "C3"
       THEN IF Len(chunk) >= 2 /\ chunk[2] = "A9"
            THEN <<"E9">> \o toString(SubSeq(chunk, 3, Len(chunk)))
            ELSE <<"FFFD">> \o toString(Tail(chunk))
       ELSE IF Head(chunk) = "A9"
            THEN <<"FFFD">> \o toString(Tail(chunk))
            ELSE <<Head(chunk)>> \o toString(Tail(chunk))

\* String.prototype.split('\n'): always at least one segment
RECURSIVE split(_)
split(s) ==
  IF \A i \in 1..Len(s) : s[i] # LF THEN <<s>>
  ELSE LET k == CHOOSE i \in 1..Len(s) : s[i] = LF /\ \A j \in 1..(i-1) : s[j] # LF
       IN  <<SubSeq(s, 1, k-1)>> \o split(SubSeq(s, k+1, Len(s)))

\* String.prototype.trim()
IsSpace(c) == c \in {SP, LF, "\r", "\t"}

RECURSIVE trimStart(_)
trimStart(s) ==
  IF s # <<>> /\ IsSpace(Head(s)) THEN trimStart(Tail(s)) ELSE s

RECURSIVE trimEnd(_)
trimEnd(s) ==
  IF s # <<>> /\ IsSpace(s[Len(s)]) THEN trimEnd(SubSeq(s, 1, Len(s)-1)) ELSE s

trim(s) == trimEnd(trimStart(s))

\* length of the longest prefix of s made of symbols of set
RECURSIVE RunLen(_, _)
RunLen(s, set) ==
  IF s # <<>> /\ Head(s) \in set THEN 1 + RunLen(Tail(s), set) ELSE 0

\* text.replace(/\x1B\[[0-9;]*[a-zA-Z]/g, '')
RECURSIVE cleanAnsi(_)
cleanAnsi(text) ==
  IF text = <<>> THEN <<>>
  ELSE IF Head(text) = ESC /\ Len(text) >= 2 /\ text[2] = "["
       THEN LET rest == SubSeq(text, 3, Len(text))
                d == RunLen(rest, Digits)
            IN  IF Len(rest) > d /\ rest[d+1] \in Letters
                THEN cleanAnsi(SubSeq(rest, d+2, Len(rest)))
                ELSE <<Head(text)>> \o cleanAnsi(Tail(text))
       ELSE <<Head(text)>> \o cleanAnsi(Tail(text))

\* trimmed.startsWith('{') || trimmed.startsWith('[')
isLikelyJsonLine(line) ==
  LET trimmed == trim(line)
  IN  trimmed # <<>> /\ Head(trimmed) \in {"{", "["}

\* ------------------------------------------------------------------------
\* JSON texts.  Besides the envelopes, a line can be the JSON text of
\*   null ("n"), a number ("0"), an array ("[" "]") or the empty object
\*   ("{" "}"); every other text that is not an envelope is not JSON.
\* ------------------------------------------------------------------------
NullText == <<"n">>

\* JSON values on which every property read gives undefined
NoPropertyTexts == {<<"0">>, <<"[", "]">>, <<"{", "}">>}

\* the envelope a CLI writes: type letter, body, and the id after its mark
Envelope(t, body, mark, id) ==
  <<"{", t>> \o body \o (IF id = Undefined THEN <<>> ELSE <<mark>> \o id) \o <<"}">>

\* ------------------------------------------------------------------------
\* JSON.parse(line) as ClaudeStreamMessage, on the abbreviated envelopes.
\* Type letters: A assistant, S system, R result, X a type the variant
\* does not know.
\* ------------------------------------------------------------------------
SyntaxError == [type |-> "SyntaxError", content |-> <<>>, session_id |-> Undefined]

\* JSON.parse("null")
JsNull == [type |-> "null", content |-> <<>>, session_id |-> Undefined]

\* a value without any of the properties the parser reads
JsOther == [type |-> "undefined", content |-> <<>>, session_id |-> Undefined]

ItemTags == {"t", "u", "r"}

ItemOf(tag, val) ==
  [type    |-> IF tag = "t" THEN "text" ELSE IF tag = "u" THEN "tool_use" ELSE "tool_result",
   text    |-> IF tag = "t" THEN val ELSE Undefined,
   name    |-> IF tag = "u" THEN val ELSE Undefined,
   content |-> IF tag = "r" THEN val ELSE Undefined]

\* the items of message.content (s is empty or starts with an item tag)
RECURSIVE ParseItems(_)
ParseItems(s) ==
  IF s = <<>> THEN <<>>
  ELSE LET n == RunLen(Tail(s), StringChars)
       IN  <<ItemOf(Head(s), SubSeq(s, 2, n+1))>> \o ParseItems(SubSeq(s, n+2, Len(s)))

TypeOf(c) ==
  IF c = "A" THEN "assistant" ELSE IF c = "S" THEN "system"
  ELSE IF c = "R" THEN "result" ELSE "unknown"

JSONparse(line) ==
  IF line = NullText THEN JsNull
  ELSE IF line \in NoPropertyTexts THEN JsOther
  ELSE IF Len(line) < 3 \/ line[1] # "{" \/ line[Len(line)] # "}"
          \/ line[2] \notin {"A", "S", "R", "X"}
  THEN SyntaxError
  ELSE LET body == SubSeq(line, 3, Len(line) - 1)
           h == RunLen(body, (ItemTags \cup StringChars))
           itemsTxt == SubSeq(body, 1, h)
           tail == SubSeq(body, h+1, Len(body))
       IN  IF itemsTxt # <<>> /\ Head(itemsTxt) \notin ItemTags THEN SyntaxError
           ELSE IF tail = <<>>
                THEN [type |-> TypeOf(line[2]), content |-> ParseItems(itemsTxt),
                      session_id |-> Undefined]
           ELSE IF Head(tail) = "#" /\ RunLen(Tail(tail), StringChars) = Len(tail) - 1
                THEN [type |-> TypeOf(line[2]), content |-> ParseItems(itemsTxt),
                      session_id |-> Tail(tail)]
           ELSE SyntaxError

\* ------------------------------------------------------------------------
\* ClaudeCliRunner.parseLineWithSession
\* ------------------------------------------------------------------------
Truthy(str) == str # Undefined /\ str # <<>>

OrElse(str, dflt) == IF Truthy(str) THEN str ELSE dflt

\* content: null
NullContent == [type |-> "null", content |-> <<>>, toolName |-> Undefined]

\* the result of the catch block: { content: null }
CaughtResult == [threw |-> FALSE, content |-> NullContent, sessionId |-> Undefined]

\* mutant: the loop has no break, the last item that qualifies decides
FirstContent_NoBreak(items) ==
  LET q == { i \in 1..Len(items) :
               \/ items[i].type \in {"tool_use", "tool_result"}
               \/ (items[i].type = "text" /\ Truthy(items[i].text)) }
  IN  IF q = {} THEN NullContent
      ELSE LET item == items[CHOOSE i \in q : \A j \in q : j <= i]
           IN  IF item.type = "tool_use"
               THEN [type |-> "tool_use", content |-> OrElse(item.name, <<"t", "o", "o", "l">>),
                     toolName |-> item.name]
               ELSE IF item.type = "tool_result"
               THEN [type |-> "tool_result", content |-> OrElse(item.content, <<>>),
                     toolName |-> item.name]
               ELSE [type |-> "text", content |-> item.text, toolName |-> Undefined]

\* the for-loop over message.message.content: the first item that is a
\* tool_use, a tool_result or a text with non-empty text decides
RECURSIVE FirstContent(_)
FirstContent(items) ==
  IF items = <<>> THEN NullContent
  ELSE LET item == Head(items)
       IN  IF item.type = "tool_use"
           THEN [type |-> "tool_use", content |-> OrElse(item.name, <<"t", "o", "o", "l">>),
                 toolName |-> item.name]
           ELSE IF item.type = "tool_result"
           THEN [type |-> "tool_result", content |-> OrElse(item.content, <<>>),
                 toolName |-> item.name]
           ELSE IF item.type = "text" /\ Truthy(item.text)
           THEN [type |-> "text", content |-> item.text, toolName |-> Undefined]
           ELSE FirstContent(Tail(items))

\* mutant: no catch block; the SyntaxError of JSON.parse and the TypeError
\* of reading a property of null leave the function
parseLineWithSession_NoCatch(line) ==
  LET message == JSONparse(line)
  IN  IF message = SyntaxError \/ message = JsNull
      THEN [threw |-> TRUE, content |-> NullContent, sessionId |-> Undefined]
      ELSE [threw     |-> FALSE,
            content   |-> IF message.type = "assistant"
                          THEN FirstContent(message.content) ELSE NullContent,
            sessionId |-> message.session_id]

\* mutant: the session id is taken from the system envelope only
parseLineWithSession_SystemIdOnly(line) ==
  LET message == JSONparse(line)
  IN  IF message = SyntaxError \/ message = JsNull THEN CaughtResult
      ELSE [threw     |-> FALSE,
            content   |-> IF message.type = "assistant"
                          THEN FirstContent(message.content) ELSE NullContent,
            sessionId |-> IF message.type = "system" THEN message.session_id
                          ELSE Undefined]

\* threw: an exception leaves the function.  JSON.parse throws on a text
\* that is not JSON and message.type throws on null; both are caught.
parseLineWithSession(line) ==
  LET message == JSONparse(line)
  IN  IF message = SyntaxError \/ message = JsNull THEN CaughtResult
      ELSE [threw     |-> FALSE,
            content   |-> IF message.type = "assistant"
                          THEN FirstContent(message.content) ELSE NullContent,
            sessionId |-> message.session_id]

\* ------------------------------------------------------------------------
\* JSON.parse(line) as GeminiStreamMessage.  Envelope: "{" TYPE [ROLE]
\* string ["#" session_id] "}", type letters I init, M message, R result,
\* U tool_use, V tool_result, X unknown; role "+" assistant, "-" user; the
\* string is content (tool_name of a tool_use, output of a tool_result).
\* ------------------------------------------------------------------------
GeminiMessage(type, role, content, tool_name, output, session_id) ==
  [type |-> type, role |-> role, content |-> content, tool_name |-> tool_name,
   output |-> output, session_id |-> session_id]

GeminiSyntaxError ==
  GeminiMessage("SyntaxError", "undefined", Undefined, Undefined, Undefined, Undefined)

GeminiNull == GeminiMessage("null", "undefined", Undefined, Undefined, Undefined, Undefined)

GeminiOther == GeminiMessage("undefined", "undefined", Undefined, Undefined, Undefined, Undefined)

GeminiTypeOf(c) ==
  IF c = "I" THEN "init" ELSE IF c = "M" THEN "message" ELSE IF c = "R" THEN "result"
  ELSE IF c = "U" THEN "tool_use" ELSE IF c = "V" THEN "tool_result" ELSE "unknown"

\* an absent string property
Optional(str) == IF str = <<>> THEN Undefined ELSE str

GeminiJSONparse(line) ==
  IF line = NullText THEN GeminiNull
  ELSE IF line \in NoPropertyTexts THEN GeminiOther
  ELSE IF Len(line) < 3 \/ line[1] # "{" \/ line[Len(line)] # "}"
          \/ line[2] \notin {"I", "M", "R", "U", "V", "X"}
  THEN GeminiSyntaxError
  ELSE LET body == SubSeq(line, 3, Len(line) - 1)
           hasRole == body # <<>> /\ Head(body) \in {"+", "-"}
           role == IF ~hasRole THEN "undefined"
                   ELSE IF Head(body) = "+" THEN "assistant" ELSE "user"
           rest == IF hasRole THEN Tail(body) ELSE body
           n == RunLen(rest, StringChars)
           str == Optional(SubSeq(rest, 1, n))
           tail == SubSeq(rest, n+1, Len(rest))
           t == line[2]
           msg(sid) == GeminiMessage(GeminiTypeOf(t), role,
                                     IF t \in {"U", "V"} THEN Undefined ELSE str,
                                     IF t = "U" THEN str ELSE Undefined,
                                     IF t = "V" THEN str ELSE Undefined, sid)
       IN  IF tail = <<>> THEN msg(Undefined)
           ELSE IF Head(tail) = "#" /\ RunLen(Tail(tail), StringChars) = Len(tail) - 1
                THEN msg(Tail(tail))
           ELSE GeminiSyntaxError

\* ------------------------------------------------------------------------
\* GeminiCliRunner.parseLineWithSession
\* ------------------------------------------------------------------------
GeminiContent(message) ==
  IF message.type = "tool_use"
  THEN [type |-> "tool_use", content |-> OrElse(message.tool_name, <<"t", "o", "o", "l">>),
        toolName |-> message.tool_name]
  ELSE IF message.type = "tool_result"
  THEN [type |-> "tool_result", content |-> OrElse(message.output, <<>>),
        toolName |-> message.tool_name]
  ELSE IF message.type = "message" /\ message.role = "assistant" /\ Truthy(message.content)
  THEN [type |-> "text", content |-> message.content, toolName |-> Undefined]
  ELSE NullContent

geminiParseLineWithSession(line) ==
  LET message == GeminiJSONparse(line)
  IN  IF message = GeminiSyntaxError \/ message = GeminiNull THEN CaughtResult
      ELSE [threw |-> FALSE, content |-> GeminiContent(message),
            sessionId |-> message.session_id]

\* ------------------------------------------------------------------------
\* JSON.parse(line) as CodexStreamMessage.  Envelope: "{" TYPE [ITEM]
\* ["@" thread_id] "}", type letters T thread.started, B item.started,
\* C item.completed, X any other; ITEM is an item type letter (g
\* agent_message, c command_execution, m mcp_tool_call, e reasoning), an
\* optional status letter (p in_progress, d completed, f failed) and a
\* string: text of g and e, tool of m, command of a started c,
\* aggregated_output of a completed c.
\* ------------------------------------------------------------------------
CodexItem(type, status, text, command, aggregated_output, tool) ==
  [type |-> type, status |-> status, text |-> text, command |-> command,
   aggregated_output |-> aggregated_output, tool |-> tool]

\* message.item is undefined
NoItem == CodexItem("undefined", "undefined", Undefined, Undefined, Undefined, Undefined)

CodexMessage(type, item, thread_id) == [type |-> type, item |-> item, thread_id |-> thread_id]

CodexSyntaxError == CodexMessage("SyntaxError", NoItem, Undefined)

CodexNull == CodexMessage("null", NoItem, Undefined)

CodexOther == CodexMessage("undefined", NoItem, Undefined)

CodexTypeOf(c) ==
  IF c = "T" THEN "thread.started" ELSE IF c = "B" THEN "item.started"
  ELSE IF c = "C" THEN "item.completed" ELSE "unknown"

CodexItemTypeOf(c) ==
  IF c = "g" THEN "agent_message" ELSE IF c = "c" THEN "command_execution"
  ELSE IF c = "m" THEN "mcp_tool_call" ELSE "reasoning"

CodexStatusOf(c) ==
  IF c = "p" THEN "in_progress" ELSE IF c = "d" THEN "completed" ELSE "failed"

CodexJSONparse(line) ==
  IF line = NullText THEN CodexNull
  ELSE IF line \in NoPropertyTexts THEN CodexOther
  ELSE IF Len(line) < 3 \/ line[1] # "{" \/ line[Len(line)] # "}"
          \/ line[2] \notin {"T", "B", "C", "X"}
  THEN CodexSyntaxError
  ELSE LET t == line[2]
           body == SubSeq(line, 3, Len(line) - 1)
           hasItem == body # <<>> /\ Head(body) \in {"g", "c", "m", "e"}
           afterType == IF hasItem THEN Tail(body) ELSE body
           hasStatus == hasItem /\ afterType # <<>> /\ Head(afterType) \in {"p", "d", "f"}
           rest == IF hasStatus THEN Tail(afterType) ELSE afterType
           n == IF hasItem THEN RunLen(rest, StringChars) ELSE 0
           str == Optional(SubSeq(rest, 1, n))
           tail == SubSeq(rest, n+1, Len(rest))
           i == IF hasItem THEN Head(body) ELSE "none"
           item == IF ~hasItem THEN NoItem
                   ELSE CodexItem(CodexItemTypeOf(i),
                                  IF hasStatus THEN CodexStatusOf(Head(afterType))
                                  ELSE "undefined",
                                  IF i \in {"g", "e"} THEN str ELSE Undefined,
                                  IF i = "c" /\ t # "C" THEN str ELSE Undefined,
                                  IF i = "c" /\ t = "C" THEN str ELSE Undefined,
                                  IF i = "m" THEN str ELSE Undefined)
       IN  IF tail = <<>> THEN CodexMessage(CodexTypeOf(t), item, Undefined)
           ELSE IF Head(tail) = "@" /\ RunLen(Tail(tail), StringChars) = Len(tail) - 1
                THEN CodexMessage(CodexTypeOf(t), item, Tail(tail))
           ELSE CodexSyntaxError

\* ------------------------------------------------------------------------
\* CodexCliRunner.parseLineWithSession
\* ------------------------------------------------------------------------
CodexCompleted(item) ==
  IF item.type = "agent_message" /\ Truthy(item.text)
  THEN [type |-> "text", content |-> item.text, toolName |-> Undefined]
  ELSE IF item.type = "command_execution"
  THEN IF item.status \in {"completed", "failed"}
       THEN [type |-> "tool_result", content |-> OrElse(item.aggregated_output, <<>>),
             toolName |-> <<"s", "h", "e", "l", "l">>]
       ELSE NullContent
  ELSE IF item.type = "mcp_tool_call"
  THEN IF item.status = "in_progress"
       THEN [type |-> "tool_use",
             content |-> OrElse(item.tool, <<"m", "c", "p", "_", "t", "o", "o", "l">>),
             toolName |-> item.tool]
       ELSE IF item.status = "completed"
       THEN [type |-> "tool_result", content |-> <<>>, toolName |-> item.tool]
       ELSE NullContent
  ELSE IF item.type = "reasoning" /\ Truthy(item.text)
  THEN [type |-> "reasoning", content |-> item.text, toolName |-> Undefined]
  ELSE NullContent

CodexStarted(item) ==
  IF item.type = "command_execution" /\ Truthy(item.command)
  THEN [type |-> "tool_use", content |-> item.command,
        toolName |-> <<"s", "h", "e", "l", "l">>]
  ELSE NullContent

\* mutant: the session id is read from session_id, which Codex never sends
codexParseLineWithSession_ReadsSessionId(line) ==
  LET message == CodexJSONparse(line)
  IN  IF message = CodexSyntaxError \/ message = CodexNull THEN CaughtResult
      ELSE [threw |-> FALSE,
            content |-> IF message.type = "item.completed" /\ message.item # NoItem
                        THEN CodexCompleted(message.item)
                        ELSE IF message.type = "item.started" /\ message.item # NoItem
                        THEN CodexStarted(message.item)
                        ELSE NullContent,
            sessionId |-> Undefined]

codexParseLineWithSession(line) ==
  LET message == CodexJSONparse(line)
  IN  IF message = CodexSyntaxError \/ message = CodexNull THEN CaughtResult
      ELSE [threw |-> FALSE,
            content |-> IF message.type = "item.completed" /\ message.item # NoItem
                        THEN CodexCompleted(message.item)
                        ELSE IF message.type = "item.started" /\ message.item # NoItem
                        THEN CodexStarted(message.item)
                        ELSE NullContent,
            sessionId |-> IF message.type = "thread.started" /\ Truthy(message.thread_id)
                          THEN message.thread_id ELSE Undefined]

\* the abstract parseLineWithSession of the runner a vendor supplies
Vendors == {"claude", "gemini", "codex"}

ParseLineOf(vendor, line) ==
  IF vendor = "claude" THEN parseLineWithSession(line)
  ELSE IF vendor = "gemini" THEN geminiParseLineWithSession(line)
  ELSE codexParseLineWithSession(line)

\* ------------------------------------------------------------------------
\* The per-run context while a handler executes.  A handler works on a
\* record h:
\*   fullContent, extractedSessionId   the ProcessContext cells
\*   delivered    the events onContent has been called with, in call order
\*   sidsSeen     the non-empty session ids of the parse results, in order
\*   k            onContent throws on its k-th call of this handler (0: never)
\*   threw        an exception is propagating out of the handler
\* ------------------------------------------------------------------------

\* mutant: the text of every content event is accumulated, whatever its type
HandleParseResult_AccumulatesAll(h, parseResult) ==
  LET h1 == IF Truthy(parseResult.sessionId)
            THEN [h EXCEPT !.sidsSeen = Append(@, parseResult.sessionId),
                           !.extractedSessionId =
                              IF ~Truthy(@) THEN parseResult.sessionId ELSE @]
            ELSE h
      h2 == [h1 EXCEPT !.fullContent = @ \o parseResult.content.content]
  IN  IF parseResult.content = NullContent THEN h1
      ELSE [h2 EXCEPT !.delivered = Append(@, parseResult.content),
                      !.threw = (h.k = 1),
                      !.k = IF @ > 0 THEN @ - 1 ELSE 0]

\* mutant: every session id replaces the extracted one
HandleParseResult_LastIdWins(h, parseResult) ==
  LET h1 == IF Truthy(parseResult.sessionId)
            THEN [h EXCEPT !.sidsSeen = Append(@, parseResult.sessionId),
                           !.extractedSessionId = parseResult.sessionId]
            ELSE h
      h2 == IF parseResult.content.type = "text"
            THEN [h1 EXCEPT !.fullContent = @ \o parseResult.content.content]
            ELSE h1
  IN  IF parseResult.content = NullContent THEN h1
      ELSE [h2 EXCEPT !.delivered = Append(@, parseResult.content),
                      !.threw = (h.k = 1),
                      !.k = IF @ > 0 THEN @ - 1 ELSE 0]

\* lines 139-149 / 178-188: first-writer-wins session id, accumulation of
\* text, then the callback
HandleParseResult(h, parseResult) ==
  LET h1 == IF Truthy(parseResult.sessionId)
            THEN [h EXCEPT !.sidsSeen = Append(@, parseResult.sessionId),
                           !.extractedSessionId =
                              IF ~Truthy(@) THEN parseResult.sessionId ELSE @]
            ELSE h
      h2 == IF parseResult.content.type = "text"
            THEN [h1 EXCEPT !.fullContent = @ \o parseResult.content.content]
            ELSE h1
  IN  IF parseResult.content = NullContent THEN h1
      ELSE [h2 EXCEPT !.delivered = Append(@, parseResult.content),
                      !.threw = (h.k = 1),
                      !.k = IF @ > 0 THEN @ - 1 ELSE 0]

\* the body of the for-loop of processChunkWithBuffer; an exception thrown
\* by onContent leaves the loop
RECURSIVE ProcessLines(_, _, _)
ProcessLines(lines, h, parseJsonOnly) ==
  IF lines = <<>> \/ h.threw THEN h
  ELSE LET cleanLine == trim(cleanAnsi(Head(lines)))
       IN  IF cleanLine = <<>> THEN ProcessLines(Tail(lines), h, parseJsonOnly)
           ELSE IF parseJsonOnly /\ ~isLikelyJsonLine(cleanLine)
                THEN ProcessLines(Tail(lines), h, parseJsonOnly)
           ELSE ProcessLines(Tail(lines),
                             HandleParseResult(h, parseLineWithSession(cleanLine)),
                             parseJsonOnly)

\* mutant: the last complete line of a chunk is handled first
processChunkWithBuffer_LastLineFirst(chunk, buffer, h, parseJsonOnly) ==
  LET text == buffer \o toString(chunk)
      lines == split(text)
      c == SubSeq(lines, 1, Len(lines) - 1)
  IN  [buffer |-> lines[Len(lines)],
       h      |-> ProcessLines(IF c = <<>> THEN c
                               ELSE <<c[Len(c)]>> \o SubSeq(c, 1, Len(c) - 1),
                               h, parseJsonOnly)]

\* processChunkWithBuffer: the new buffer value and the handler record
processChunkWithBuffer(chunk, buffer, h, parseJsonOnly) ==
  LET text == buffer \o toString(chunk)
      lines == split(text)
  IN  [buffer |-> lines[Len(lines)],
       h      |-> ProcessLines(SubSeq(lines, 1, Len(lines) - 1), h, parseJsonOnly)]

\* processRemainingBuffer
processRemainingBuffer(buffer, h) ==
  IF trim(buffer) = <<>> THEN h
  ELSE HandleParseResult(h, parseLineWithSession(trim(cleanAnsi(buffer))))

\* ------------------------------------------------------------------------
\* Inputs: what the child process writes on its two channels
\* ------------------------------------------------------------------------
Scenarios ==
  << \* session line, tool use, text, unterminated text with a 2-byte character
     [out |-> <<"{", "S", "#", "a", "}", LF,
                "{", "A", "u", "b", "}", LF,
                "{", "A", "t", "a", "}", LF,
                "{", "A", "t", "C3", "A9", "#", "b", "}">>,
      err |-> <<>>],
     \* colour codes and padding on stdout; free text and JSON on stderr
     [out |-> <<SP, ESC, "[", "0", "m", "{", "A", "t", "b", "}", SP, LF>>,
      err |-> <<"!", LF, "{", "S", "#", "b", "}", LF, "{", "A", "t", "a", "}">>],
     \* two text lines that carry different session ids
     [out |-> <<"{", "A", "t", "C3", "A9", "#", "a", "}", LF,
                "{", "A", "t", "b", "#", "b", "}", LF>>,
      err |-> <<"{", "A", "t", "a", "}", LF>>],
     \* one text line on each channel
     [out |-> <<"{", "A", "t", "a", "}", LF>>,
      err |-> <<"{", "A", "t", "b", "}", LF>>] >>

\* how many times the streaming callback may throw in one run
MaxThrows == 1

\* close codes of a child that ran: 0, non-zero, or null when a signal
\* ended it; -2 is what a failed spawn (ENOENT) reports
ExitCodes == {"0", "1", "null", "-2"}

VARIABLES
  phase,       \* "idle", "running" (handlers registered), "closed" ('close' delivered),
               \* "rejected" (run() threw before it registered a handler)
  scenario,    \* index into Scenarios
  hasSignal,   \* options.abortSignal is given
  spawnOk,     \* the child process could be spawned
  outRest,     \* bytes the child has not yet delivered on stdout
  errRest,     \* bytes the child has not yet delivered on stderr
  context,     \* ProcessContext: fullContent, stderrContent, stderrBuffer, buffer,
               \* extractedSessionId
  listening,   \* abortHandler is attached to the abort signal
  aborted,     \* the abort signal has fired
  kills,       \* signals passed to childProcess.kill, in call order
  resolveCalls,\* number of calls of context.resolve
  settled,     \* the promise returned by run() is settled
  result,      \* the CliResult the promise settled with
  delivered,   \* events onContent was called with, in call order
  origins,     \* for each delivered event the handler that produced it
  sidsSeen,    \* non-empty session ids of the parse results, in parse order
  expected,    \* content events carried by the lines handed to the handlers
  throws,      \* exceptions thrown by onContent so far
  uncaught,    \* exceptions that left an event handler
  removeCalls, \* calls of abortSignal.removeEventListener
  closeEvents, \* 'close' events delivered
  errorEvents, \* 'error' events delivered
  closeCode,   \* the exit code the 'close' event carried
  parse,       \* one call of a vendor's parseLineWithSession (specification SpecParse)
  two,         \* two runs in flight on one runner (specification SpecTwo)
  args,        \* one argument vector from builder to child (specification SpecArgs)
  chat,        \* the turns of one chat (specification SpecChat)
  store,       \* the session file and its readers (specification SpecStore)
  exec         \* one call of executeCommand (specification SpecExec)

vars == <<phase, scenario, hasSignal, spawnOk, outRest, errRest, context, listening,
          aborted, kills, resolveCalls, settled, result, delivered, origins, sidsSeen,
          expected, throws, uncaught, removeCalls, closeEvents, errorEvents, closeCode,
          parse, two, args, chat, store, exec>>

\* the variables of the single run
runVars == <<phase, scenario, hasSignal, spawnOk, outRest, errRest, context, listening,
             aborted, kills, resolveCalls, settled, result, delivered, origins, sidsSeen,
             expected, throws, uncaught, removeCalls, closeEvents, errorEvents, closeCode>>

ParseIdle == <<>>

TwoIdle == <<>>

ArgsIdle == <<>>

ChatIdle == <<>>

StoreIdle == <<>>

ExecIdle == <<>>

NoResult == [success |-> FALSE, content |-> <<>>, error |-> Undefined, sessionId |-> Undefined]

InitRun ==
  /\ phase = "idle"
  /\ scenario = 1
  /\ hasSignal = FALSE
  /\ spawnOk = TRUE
  /\ outRest = <<>>
  /\ errRest = <<>>
  /\ context = [fullContent |-> <<>>, stderrContent |-> <<>>, stderrBuffer |-> <<>>,
                buffer |-> <<>>, extractedSessionId |-> Undefined]
  /\ listening = FALSE
  /\ aborted = FALSE
  /\ kills = <<>>
  /\ resolveCalls = 0
  /\ settled = FALSE
  /\ result = NoResult
  /\ delivered = <<>>
  /\ origins = <<>>
  /\ sidsSeen = <<>>
  /\ expected = <<>>
  /\ throws = 0
  /\ uncaught = 0
  /\ removeCalls = 0
  /\ closeEvents = 0
  /\ errorEvents = 0
  /\ closeCode = Undefined

\* ------------------------------------------------------------------------
\* Helpers of the actions
\* ------------------------------------------------------------------------

\* the handler record at the start of a handler
HandlerStart(k) ==
  [fullContent |-> context.fullContent, extractedSessionId |-> context.extractedSessionId,
   delivered |-> delivered, sidsSeen |-> sidsSeen, k |-> k, threw |-> FALSE]

\* the numbers k the callback may be told to throw at, given that a handler
\* run without exception makes n calls
ThrowChoices(n) == IF throws < MaxThrows THEN 0..n ELSE {0}

Repeat(n, x) == [i \in 1..n |-> x]

\* the content events the lines carry
RECURSIVE ContentsOf(_, _)
ContentsOf(lines, parseJsonOnly) ==
  IF lines = <<>> THEN <<>>
  ELSE LET cleanLine == trim(cleanAnsi(Head(lines)))
           content == parseLineWithSession(cleanLine).content
       IN  (IF /\ cleanLine # <<>>
               /\ (parseJsonOnly => isLikelyJsonLine(cleanLine))
               /\ content # NullContent
            THEN <<content>> ELSE <<>>) \o ContentsOf(Tail(lines), parseJsonOnly)

CompleteLines(text) == SubSeq(split(text), 1, Len(split(text)) - 1)

\* the state a handler leaves behind
CommitHandler(h, origin) ==
  /\ delivered' = h.delivered
  /\ origins' = origins \o Repeat(Len(h.delivered) - Len(delivered), origin)
  /\ sidsSeen' = h.sidsSeen
  /\ throws' = throws + (IF h.threw THEN 1 ELSE 0)
  /\ uncaught' = uncaught + (IF h.threw THEN 1 ELSE 0)

\* Promise resolve: only the first call settles the promise
Resolve(res) ==
  /\ resolveCalls' = resolveCalls + 1
  /\ settled' = TRUE
  /\ result' = IF settled THEN result ELSE res

\* cleanupAbortListener
cleanupAbortListener ==
  /\ removeCalls' = removeCalls + (IF hasSignal THEN 1 ELSE 0)
  /\ listening' = IF hasSignal THEN FALSE ELSE listening

\* ------------------------------------------------------------------------
\* Actions
\* ------------------------------------------------------------------------

\* run(): spawn the child, create the context, registerProcessHandlers
run(sc, signal, ok) ==
  /\ phase = "idle"
  /\ aborted => signal
  /\ phase' = "running"
  /\ scenario' = sc
  /\ hasSignal' = signal
  /\ spawnOk' = ok
  /\ outRest' = IF ok THEN Scenarios[sc].out ELSE <<>>
  /\ errRest' = IF ok THEN Scenarios[sc].err ELSE <<>>
  /\ context' = [fullContent |-> <<>>, stderrContent |-> <<>>, stderrBuffer |-> <<>>,
                 buffer |-> <<>>, extractedSessionId |-> Undefined]
  /\ listening' = signal
  /\ UNCHANGED <<aborted, kills, resolveCalls, settled, result, delivered, origins,
                 sidsSeen, expected, throws, uncaught, removeCalls, closeEvents,
                 errorEvents, closeCode, parse, two, args, chat, store, exec>>

\* run() when buildCliOptions, buildPromptArgument or spawn() throws (spawn
\* throws errors such as E2BIG of an over-long prompt argument): nothing in
\* run() catches, no handler is registered, and the promise of the async
\* function is rejected
runThrows ==
  /\ phase = "idle"
  /\ phase' = "rejected"
  /\ UNCHANGED <<scenario, hasSignal, spawnOk, outRest, errRest, context, listening,
                 aborted, kills, resolveCalls, settled, result, delivered, origins,
                 sidsSeen, expected, throws, uncaught, removeCalls, closeEvents,
                 errorEvents, closeCode, parse, two, args, chat, store, exec>>

\* childProcess.stdout.on('data'): processChunk
stdoutData(n, k) ==
  /\ phase = "running"
  /\ n \in 1..Len(outRest)
  /\ LET chunk == SubSeq(outRest, 1, n)
         carried == ContentsOf(CompleteLines(context.buffer \o toString(chunk)), FALSE)
         r == processChunkWithBuffer(chunk, context.buffer, HandlerStart(k), FALSE)
     IN  /\ k \in ThrowChoices(Len(carried))
         /\ outRest' = SubSeq(outRest, n + 1, Len(outRest))
         /\ context' = [context EXCEPT !.buffer = r.buffer,
                                       !.fullContent = r.h.fullContent,
                                       !.extractedSessionId = r.h.extractedSessionId]
         /\ expected' = expected \o carried
         /\ CommitHandler(r.h, "stdout")
  /\ UNCHANGED <<phase, scenario, hasSignal, spawnOk, errRest, listening, aborted, kills,
                 resolveCalls, settled, result, removeCalls, closeEvents, errorEvents, closeCode, parse, two, args, chat, store, exec>>

\* mutant: one line buffer for both channels
stderrData_SharedBuffer(n, k) ==
  /\ phase = "running"
  /\ n \in 1..Len(errRest)
  /\ LET chunk == SubSeq(errRest, 1, n)
         carried == ContentsOf(CompleteLines(context.buffer \o toString(chunk)), TRUE)
         r == processChunkWithBuffer(chunk, context.buffer, HandlerStart(k), TRUE)
     IN  /\ k \in ThrowChoices(Len(carried))
         /\ errRest' = SubSeq(errRest, n + 1, Len(errRest))
         /\ context' = [context EXCEPT !.stderrContent = @ \o toString(chunk),
                                       !.buffer = r.buffer,
                                       !.fullContent = r.h.fullContent,
                                       !.extractedSessionId = r.h.extractedSessionId]
         /\ expected' = expected \o carried
         /\ CommitHandler(r.h, "stderr")
  /\ UNCHANGED <<phase, scenario, hasSignal, spawnOk, outRest, listening, aborted, kills,
                 resolveCalls, settled, result, removeCalls, closeEvents, errorEvents, closeCode, parse, two, args, chat, store, exec>>

\* childProcess.stderr.on('data'): accumulate the raw text, processStderrChunk
stderrData(n, k) ==
  /\ phase = "running"
  /\ n \in 1..Len(errRest)
  /\ LET chunk == SubSeq(errRest, 1, n)
         carried == ContentsOf(CompleteLines(context.stderrBuffer \o toString(chunk)), TRUE)
         r == processChunkWithBuffer(chunk, context.stderrBuffer, HandlerStart(k), TRUE)
     IN  /\ k \in ThrowChoices(Len(carried))
         /\ errRest' = SubSeq(errRest, n + 1, Len(errRest))
         /\ context' = [context EXCEPT !.stderrContent = @ \o toString(chunk),
                                       !.stderrBuffer = r.buffer,
                                       !.fullContent = r.h.fullContent,
                                       !.extractedSessionId = r.h.extractedSessionId]
         /\ expected' = expected \o carried
         /\ CommitHandler(r.h, "stderr")
  /\ UNCHANGED <<phase, scenario, hasSignal, spawnOk, outRest, listening, aborted, kills,
                 resolveCalls, settled, result, removeCalls, closeEvents, errorEvents, closeCode, parse, two, args, chat, store, exec>>

\* the CliResult of handleProcessClose, from the cells of its context
CloseResultOf(exitCode, fullContent, extractedSessionId, stderrContent) ==
  IF exitCode = "0"
  THEN [success |-> TRUE, content |-> fullContent, error |-> Undefined,
        sessionId |-> extractedSessionId]
  ELSE [success |-> FALSE, content |-> fullContent,
        error |-> <<"Process exited with code ", exitCode>> \o
                  (IF stderrContent # <<>> THEN <<"\nStderr: ">> \o stderrContent
                   ELSE <<>>),
        sessionId |-> extractedSessionId]

\* mutant: the failure message carries the exit code only
CloseResult_NoStderr(exitCode, h) ==
  IF exitCode = "0"
  THEN [success |-> TRUE, content |-> h.fullContent, error |-> Undefined,
        sessionId |-> h.extractedSessionId]
  ELSE [success |-> FALSE, content |-> h.fullContent,
        error |-> <<"Process exited with code ", exitCode>>,
        sessionId |-> h.extractedSessionId]

\* mutant: a null exit code (a child ended by a signal) counts as success
CloseResult_NullIsSuccess(exitCode, h) ==
  IF exitCode \in {"0", "null"}
  THEN [success |-> TRUE, content |-> h.fullContent, error |-> Undefined,
        sessionId |-> h.extractedSessionId]
  ELSE [success |-> FALSE, content |-> h.fullContent,
        error |-> <<"Process exited with code ", exitCode>> \o
                  (IF context.stderrContent # <<>>
                   THEN <<"\nStderr: ">> \o context.stderrContent ELSE <<>>),
        sessionId |-> h.extractedSessionId]

\* the CliResult of handleProcessClose
CloseResult(exitCode, h) ==
  CloseResultOf(exitCode, h.fullContent, h.extractedSessionId, context.stderrContent)

\* childProcess.on('close'): handleProcessClose
handleProcessClose(exitCode, k) ==
  /\ phase = "running"
  /\ IF spawnOk THEN exitCode \in {"0", "1"} \/ (exitCode = "null" /\ kills # <<>>)
               ELSE exitCode = "-2" /\ errorEvents > 0
  /\ LET carried == ContentsOf(<<context.buffer>>, FALSE)
         h == processRemainingBuffer(context.buffer, HandlerStart(k))
     IN  /\ k \in ThrowChoices(Len(carried))
         /\ cleanupAbortListener
         /\ context' = [context EXCEPT !.fullContent = h.fullContent,
                                       !.extractedSessionId = h.extractedSessionId]
         /\ expected' = expected \o carried
         /\ CommitHandler(h, "flush")
         /\ IF h.threw
            THEN UNCHANGED <<resolveCalls, settled, result>>
            ELSE Resolve(CloseResult(exitCode, h))
  /\ phase' = "closed"
  /\ closeEvents' = closeEvents + 1
  /\ closeCode' = exitCode
  /\ UNCHANGED <<scenario, hasSignal, spawnOk, outRest, errRest, aborted, kills,
                 errorEvents, parse, two, args, chat, store, exec>>

\* mutant: the error path leaves the abort listener attached
handleProcessError_NoCleanup(message) ==
  /\ UNCHANGED <<removeCalls, listening>>
  /\ Resolve([success |-> FALSE, content |-> context.fullContent, error |-> message,
              sessionId |-> context.extractedSessionId])
  /\ errorEvents' = errorEvents + 1

\* mutant: the error path reports no partial content
handleProcessError_DropsContent(message) ==
  /\ cleanupAbortListener
  /\ Resolve([success |-> FALSE, content |-> <<>>, error |-> message,
              sessionId |-> context.extractedSessionId])
  /\ errorEvents' = errorEvents + 1

\* handleProcessError
handleProcessError(message) ==
  /\ cleanupAbortListener
  /\ Resolve([success |-> FALSE, content |-> context.fullContent, error |-> message,
              sessionId |-> context.extractedSessionId])
  /\ errorEvents' = errorEvents + 1

\* childProcess.on('error') after a failed spawn: the event comes first
spawnError ==
  /\ phase = "running"
  /\ ~spawnOk
  /\ errorEvents = 0
  /\ handleProcessError(<<"spawn ENOENT">>)
  /\ UNCHANGED <<phase, scenario, hasSignal, spawnOk, outRest, errRest, context, aborted,
                 kills, delivered, origins, sidsSeen, expected, throws, uncaught,
                 closeEvents, closeCode, parse, two, args, chat, store, exec>>

\* childProcess.kill(signal): when the signal cannot be delivered, kill()
\* emits 'error' before it returns
kill(signal, fails) ==
  /\ kills' = Append(kills, signal)
  /\ IF fails THEN handleProcessError(<<"kill EPERM">>)
              ELSE UNCHANGED <<removeCalls, listening, resolveCalls, settled, result,
                               errorEvents>>

\* mutant: a forced kill
abortHandler_ForcedKill(fails) == kill("SIGKILL", fails)

\* mutant: the abort handler resolves the run itself
abortHandler_Resolves(fails) ==
  /\ kills' = Append(kills, "SIGTERM")
  /\ cleanupAbortListener
  /\ Resolve([success |-> FALSE, content |-> context.fullContent,
              error |-> <<"cancelled">>, sessionId |-> context.extractedSessionId])
  /\ UNCHANGED errorEvents

\* abortHandler: () => childProcess.kill('SIGTERM')
abortHandler(fails) == kill("SIGTERM", fails)

\* the signal fires, the listener runs, the child takes the signal
abortKill ==
  /\ phase # "idle" /\ spawnOk
  /\ hasSignal /\ ~aborted /\ listening
  /\ aborted' = TRUE
  /\ abortHandler(FALSE)
  /\ UNCHANGED <<phase, scenario, hasSignal, spawnOk, outRest, errRest, context,
                 delivered, origins, sidsSeen, expected, throws, uncaught, closeEvents, closeCode, parse, two, args, chat, store, exec>>

\* the signal fires, the listener runs, kill() fails
abortKillFails ==
  /\ phase # "idle" /\ spawnOk
  /\ hasSignal /\ ~aborted /\ listening
  /\ aborted' = TRUE
  /\ abortHandler(TRUE)
  /\ UNCHANGED <<phase, scenario, hasSignal, spawnOk, outRest, errRest, context,
                 delivered, origins, sidsSeen, expected, throws, uncaught, closeEvents, closeCode, parse, two, args, chat, store, exec>>

\* the signal fires after the listener has been removed
abortUnheard ==
  /\ phase # "idle"
  /\ hasSignal /\ ~aborted /\ ~listening
  /\ aborted' = TRUE
  /\ UNCHANGED <<phase, scenario, hasSignal, spawnOk, outRest, errRest, context, listening,
                 kills, resolveCalls, settled, result, delivered, origins, sidsSeen,
                 expected, throws, uncaught, removeCalls, closeEvents, errorEvents, closeCode, parse, two, args, chat, store, exec>>

\* the caller's signal is aborted before run() is called: addEventListener
\* on an aborted signal attaches a listener that is never called
abortBeforeRun ==
  /\ phase = "idle"
  /\ ~aborted
  /\ aborted' = TRUE
  /\ UNCHANGED <<phase, scenario, hasSignal, spawnOk, outRest, errRest, context, listening,
                 kills, resolveCalls, settled, result, delivered, origins, sidsSeen,
                 expected, throws, uncaught, removeCalls, closeEvents, errorEvents, closeCode, parse, two, args, chat, store, exec>>

\* the single run; the other specifications' variables stay idle
Init ==
  /\ InitRun
  /\ parse = ParseIdle
  /\ two = TwoIdle
  /\ args = ArgsIdle
  /\ chat = ChatIdle
  /\ store = StoreIdle
  /\ exec = ExecIdle

Next ==
  \/ \E sc \in 1..Len(Scenarios), signal \in BOOLEAN, ok \in BOOLEAN : run(sc, signal, ok)
  \/ runThrows
  \/ \E n \in 1..Len(outRest), k \in 0..Len(outRest) : stdoutData(n, k)
  \/ \E n \in 1..Len(errRest), k \in 0..Len(errRest) : stderrData(n, k)
  \/ \E exitCode \in ExitCodes, k \in 0..1 : handleProcessClose(exitCode, k)
  \/ spawnError
  \/ abortKill
  \/ abortKillFails
  \/ abortUnheard
  \/ abortBeforeRun

Spec == Init /\ [][Next]_vars

\* ------------------------------------------------------------------------
\* Specification SpecParse: the for-loop of processChunkWithBuffer on two
\* lines, with the parseLineWithSession of one vendor.  The first line is
\* drawn from the cases below, the second is a text line of the vendor.
\*   parse.kind     what the first line is
\*   parse.carried  the session or thread id written into the first line
\*   parse.results  what parseLineWithSession returned, line by line
\* ------------------------------------------------------------------------

\* the letter of the vendor's envelope that carries text, and the mark
\* before its session (thread) id
TextLetter(vendor) ==
  IF vendor = "claude" THEN "A" ELSE IF vendor = "gemini" THEN "M" ELSE "C"

IdMark(vendor) == IF vendor = "codex" THEN "@" ELSE "#"

\* a text line of the vendor with text str
TextLine(vendor, str, id) ==
  Envelope(TextLetter(vendor),
           (IF vendor = "claude" THEN <<"t">> ELSE IF vendor = "gemini" THEN <<"+">>
            ELSE <<"g">>) \o str,
           IdMark(vendor), id)

\* the session-start line of the vendor
SessionLine(vendor, id) ==
  Envelope(IF vendor = "claude" THEN "S" ELSE IF vendor = "gemini" THEN "I" ELSE "T",
           <<>>, IdMark(vendor), id)

\* empty, truncated JSON, free text, and JSON that is not an object
MalformedLines(vendor) ==
  { <<>>, <<"{">>, <<"}">>, <<"{", TextLetter(vendor)>>,
    SubSeq(TextLine(vendor, <<"a">>, Undefined), 1, 4),
    SubSeq(TextLine(vendor, <<"a">>, <<"b">>), 1, 6),
    <<"!">>, <<"a", SP, "b">>, NullText, <<"0">>, <<"[", "]">> }

\* envelopes of a type the variant does not know, and the empty object
UnknownLines(vendor, id) ==
  { Envelope("X", <<>>, IdMark(vendor), id),
    Envelope("X", (IF vendor = "claude" THEN <<"t">> ELSE IF vendor = "gemini" THEN <<"+">>
                   ELSE <<"g">>) \o <<"a">>, IdMark(vendor), id) }
  \cup (IF id = Undefined THEN {<<"{", "}">>} ELSE {})

\* lines of the types the variants handle
KnownLines(vendor, id) ==
  { TextLine(vendor, <<"a">>, id), TextLine(vendor, <<>>, id) } \cup
  ( IF vendor = "claude"
    THEN { Envelope("A", <<"u", "b">>, "#", id), Envelope("A", <<"r", "b">>, "#", id),
           Envelope("R", <<>>, "#", id) }
    ELSE IF vendor = "gemini"
    THEN { Envelope("U", <<"b">>, "#", id), Envelope("V", <<"b">>, "#", id),
           Envelope("M", <<"-", "a">>, "#", id), Envelope("R", <<>>, "#", id) }
    ELSE { Envelope("B", <<"c", "p", "b">>, "@", id), Envelope("C", <<"c", "d", "b">>, "@", id),
           Envelope("C", <<"m", "p", "b">>, "@", id), Envelope("C", <<"e", "b">>, "@", id) } )

\* Codex item.started lines of a command execution and of an MCP tool
\* call, with and without the in_progress status
CodexBeginLines ==
  { Envelope("B", <<i>> \o st \o <<"b">>, "@", Undefined) :
       i \in {"c", "m"}, st \in {<<>>, <<"p">>} }

\* Claude assistant envelopes with up to MaxItems items in message.content:
\* texts (one of them empty), tool uses and tool results, with and without
\* a name or a content
MaxItems == 3

ItemTexts == {<<"t">>, <<"t", "a">>, <<"t", "b">>, <<"u">>, <<"u", "b">>, <<"r">>, <<"r", "a">>}

RECURSIVE ItemsBody(_)
ItemsBody(texts) ==
  IF texts = <<>> THEN <<>> ELSE Head(texts) \o ItemsBody(Tail(texts))

ClaudeItemLines ==
  { Envelope("A", ItemsBody(texts), "#", Undefined) :
       texts \in UNION { [1..k -> ItemTexts] : k \in 1..MaxItems } }

Ids == {<<"a">>, <<"b", "a">>}

ParseCase(vendor, kind, line, carried) ==
  [vendor |-> vendor, kind |-> kind, line |-> line, carried |-> carried, results |-> <<>>]

ParseCases ==
  UNION { { ParseCase(v, "malformed", l, Undefined) : l \in MalformedLines(v) } \cup
          UNION { { ParseCase(v, "unknown", l, id) : l \in UnknownLines(v, id) } \cup
                  { ParseCase(v, "known", l, id) : l \in KnownLines(v, id) }
                  : id \in Ids \cup {Undefined} } \cup
          { ParseCase(v, "session", SessionLine(v, id), id) : id \in Ids }
          : v \in Vendors }
  \cup { ParseCase("codex", "begin", l, Undefined) : l \in CodexBeginLines }
  \cup { ParseCase("claude", "items", l, Undefined) : l \in ClaudeItemLines }

\* the line that follows in the chunk
LaterLine(vendor) == TextLine(vendor, <<"b">>, Undefined)

InitParse ==
  /\ InitRun
  /\ parse \in ParseCases
  /\ two = TwoIdle
  /\ args = ArgsIdle
  /\ chat = ChatIdle
  /\ store = StoreIdle
  /\ exec = ExecIdle

\* one turn of the loop: the next line is parsed; an exception of the
\* parser would leave the loop
parseLine ==
  /\ parse # ParseIdle
  /\ Len(parse.results) < 2
  /\ \A i \in 1..Len(parse.results) : ~parse.results[i].threw
  /\ parse' = [parse EXCEPT !.results =
                  Append(@, ParseLineOf(parse.vendor,
                                        IF @ = <<>> THEN parse.line
                                        ELSE LaterLine(parse.vendor)))]
  /\ UNCHANGED <<runVars, two, args, chat, store, exec>>

NextParse == parseLine

SpecParse == InitParse /\ [][NextParse]_vars

\* ------------------------------------------------------------------------
\* Specification SpecTwo: two runs in flight on one runner.  run() builds
\* its ProcessContext as a new object and the handlers it registers close
\* over that object; the model keeps the context objects in a heap and
\* gives every run the reference its handlers hold.
\*   two.phase[i]    "idle", "running", "closed"
\*   two.ref[i]      the context the handlers of run i hold
\*   two.heap        the context objects, with their onContent and resolve
\*   two.rest[i]     what child i has not yet written
\*   two.log[i]      the events the callback of run i was called with
\*   two.promise[i]  the promise run i returned
\*   two.alone[i]    context, log and promise of run i had it been the
\*                   only run: the same events applied to a private copy
\* ------------------------------------------------------------------------
TwoStreams ==
  << [out |-> <<"{", "A", "t", "C3", "A9", "#", "a", "}", LF, "{", "A", "t", "b", "}">>,
      err |-> <<"!", LF>>],
     [out |-> <<"{", "S", "#", "b", "}", LF, "{", "A", "t", "a", "}", LF>>,
      err |-> <<>>] >>

Runs == 1..2

FreshContext(i) ==
  [fullContent |-> <<>>, stderrContent |-> <<>>, stderrBuffer |-> <<>>, buffer |-> <<>>,
   extractedSessionId |-> Undefined, onContent |-> i, resolve |-> i]

Pending == [settled |-> FALSE, result |-> NoResult]

\* mutant: the context is kept on the runner instance and replaced by
\* every call of run()
NewContext_OnRunner(heap, i) == [heap |-> <<FreshContext(i)>>, ref |-> 1]

\* const context: ProcessContext = { ... } in run()
NewContext(heap, i) == [heap |-> Append(heap, FreshContext(i)), ref |-> Len(heap) + 1]

\* a data handler on context c whose callback has received lg
DataStep(c, lg, chunk, isStderr) ==
  LET h == [fullContent |-> c.fullContent, extractedSessionId |-> c.extractedSessionId,
            delivered |-> lg, sidsSeen |-> <<>>, k |-> 0, threw |-> FALSE]
      r == processChunkWithBuffer(chunk, IF isStderr THEN c.stderrBuffer ELSE c.buffer,
                                  h, isStderr)
  IN  [ctx |-> [c EXCEPT !.fullContent = r.h.fullContent,
                         !.extractedSessionId = r.h.extractedSessionId,
                         !.buffer = IF isStderr THEN @ ELSE r.buffer,
                         !.stderrBuffer = IF isStderr THEN r.buffer ELSE @,
                         !.stderrContent = IF isStderr THEN @ \o toString(chunk) ELSE @],
       log |-> r.h.delivered]

\* handleProcessClose on context c
CloseStep(c, lg, exitCode) ==
  LET h == processRemainingBuffer(c.buffer,
              [fullContent |-> c.fullContent, extractedSessionId |-> c.extractedSessionId,
               delivered |-> lg, sidsSeen |-> <<>>, k |-> 0, threw |-> FALSE])
  IN  [ctx |-> [c EXCEPT !.fullContent = h.fullContent,
                         !.extractedSessionId = h.extractedSessionId],
       log |-> h.delivered,
       result |-> CloseResultOf(exitCode, h.fullContent, h.extractedSessionId,
                                c.stderrContent)]

\* resolve(result) of a promise: the first call settles it
Settle(promise, res) == IF promise.settled THEN promise ELSE [settled |-> TRUE, result |-> res]

TwoInit ==
  [phase |-> <<"idle", "idle">>, ref |-> <<0, 0>>, heap |-> <<>>,
   rest |-> <<[out |-> <<>>, err |-> <<>>], [out |-> <<>>, err |-> <<>>]>>,
   log |-> <<(<<>>), (<<>>)>>, promise |-> <<Pending, Pending>>,
   alone |-> <<[ctx |-> FreshContext(1), log |-> <<>>, promise |-> Pending],
               [ctx |-> FreshContext(2), log |-> <<>>, promise |-> Pending]>>]

InitTwo ==
  /\ InitRun
  /\ parse = ParseIdle
  /\ two = TwoInit
  /\ args = ArgsIdle
  /\ chat = ChatIdle
  /\ store = StoreIdle
  /\ exec = ExecIdle

\* run() of run i on the shared runner
twoRun(i) ==
  /\ two.phase[i] = "idle"
  /\ LET new == NewContext(two.heap, i)
     IN  two' = [two EXCEPT !.phase[i] = "running", !.heap = new.heap, !.ref[i] = new.ref,
                            !.rest[i] = TwoStreams[i]]
  /\ UNCHANGED <<runVars, parse, args, chat, store, exec>>

\* a data event of child i: the handler works on the context it holds and
\* calls that context's onContent
twoData(i, isStderr, n) ==
  /\ two.phase[i] = "running"
  /\ LET rest == IF isStderr THEN two.rest[i].err ELSE two.rest[i].out
         chunk == SubSeq(rest, 1, n)
         after == SubSeq(rest, n + 1, Len(rest))
         c == two.heap[two.ref[i]]
         r == DataStep(c, two.log[c.onContent], chunk, isStderr)
         a == DataStep(two.alone[i].ctx, two.alone[i].log, chunk, isStderr)
     IN  /\ n \in 1..Len(rest)
         /\ two' = [two EXCEPT !.rest[i] = IF isStderr THEN [@ EXCEPT !.err = after]
                                           ELSE [@ EXCEPT !.out = after],
                               !.heap[two.ref[i]] = r.ctx,
                               !.log[c.onContent] = r.log,
                               !.alone[i].ctx = a.ctx,
                               !.alone[i].log = a.log]
  /\ UNCHANGED <<runVars, parse, args, chat, store, exec>>

\* the 'close' event of child i
twoClose(i, exitCode) ==
  /\ two.phase[i] = "running"
  /\ exitCode \in {"0", "1"}
  /\ LET c == two.heap[two.ref[i]]
         r == CloseStep(c, two.log[c.onContent], exitCode)
         a == CloseStep(two.alone[i].ctx, two.alone[i].log, exitCode)
     IN  two' = [two EXCEPT !.phase[i] = "closed",
                            !.heap[two.ref[i]] = r.ctx,
                            !.log[c.onContent] = r.log,
                            !.promise[c.resolve] = Settle(@, r.result),
                            !.alone[i].ctx = a.ctx,
                            !.alone[i].log = a.log,
                            !.alone[i].promise = Settle(@, a.result)]
  /\ UNCHANGED <<runVars, parse, args, chat, store, exec>>

NextTwo ==
  \/ \E i \in Runs : twoRun(i)
  \/ \E i \in Runs, isStderr \in BOOLEAN :
        \E n \in 1..Len(TwoStreams[i].out) : twoData(i, isStderr, n)
  \/ \E i \in Runs, exitCode \in ExitCodes : twoClose(i, exitCode)

SpecTwo == InitTwo /\ [][NextTwo]_vars

\* ------------------------------------------------------------------------
\* Specification SpecArgs: one argument vector, from buildCliOptions of the
\* three runners through escapeShellArg in run() to the arguments the child
\* receives from the shell.  A flag or tag the code writes as a literal
\* ('--resume', '<ModeInstructions>') is one symbol of the text.
\* ------------------------------------------------------------------------
SQ == "'"
DQ == "\""
BS == "\\"
CR == "\r"

ArgChars == {"a", SQ, DQ, BS, LF}

MaxArgLen == 3

ArgStrings == UNION { [1..k -> ArgChars] : k \in 0..MaxArgLen }

\* Array.prototype.join
RECURSIVE join(_, _)
join(parts, sep) ==
  IF parts = <<>> THEN <<>>
  ELSE IF Len(parts) = 1 THEN parts[1]
       ELSE parts[1] \o sep \o join(Tail(parts), sep)

\* JSON.stringify of a string
RECURSIVE JsonChars(_)
JsonChars(str) ==
  IF str = <<>> THEN <<>>
  ELSE (CASE Head(str) = DQ -> <<BS, DQ>>
          [] Head(str) = BS -> <<BS, BS>>
          [] Head(str) = LF -> <<BS, "n">>
          [] Head(str) = CR -> <<BS, "r">>
          [] OTHER -> <<Head(str)>>) \o JsonChars(Tail(str))

JsonString(str) == <<DQ>> \o JsonChars(str) \o <<DQ>>

\* vscode.workspace.getConfiguration('CCA') and workspaceFolders, as the
\* builders read them; an unset string setting is the empty text
NoConfig ==
  [model |-> <<>>, reasoningEffort |-> <<>>, allowedTools |-> <<>>,
   useWebSearch |-> FALSE, workspaceFolders |-> <<>>]

Configs ==
  { NoConfig,
    [NoConfig EXCEPT !.workspaceFolders = << <<"/", "w">> >>],
    [model |-> <<"m">>, reasoningEffort |-> <<"h">>,
     allowedTools |-> << <<"R">>, <<"W">> >>, useWebSearch |-> TRUE,
     workspaceFolders |-> << <<"C", ":", BS, "w">>, <<"/", "w", SP, SQ>> >>] }

NoModeInstructions == [present |-> FALSE, name |-> <<>>, content |-> <<>>]

ModeChoices ==
  { NoModeInstructions,
    [present |-> TRUE, name |-> <<"n">>, content |-> <<"c">>],
    [present |-> TRUE, name |-> <<"n", SP, SQ>>, content |-> <<"c", LF, DQ, "a">>] }

ResumeIds == {Undefined, <<>>, <<"s", "1">>}

Platforms == {"win32", "posix"}

getArgumentOutputFormat(vendor) ==
  CASE vendor = "claude" ->
         << <<"--output-format">>, <<"stream-json">>, <<"--verbose">>,
            <<"--include-partial-messages">> >>
    [] vendor = "gemini" -> << <<"--output-format">>, <<"stream-json">> >>
    [] vendor = "codex" -> << <<"--json">> >>

getArgumentAllowedTools(vendor, config) ==
  CASE vendor = "claude" ->
         IF Len(config.allowedTools) > 0
         THEN << <<"--allowed-tools">>, join(config.allowedTools, <<",">>) >>
         ELSE <<>>
    [] vendor = "gemini" -> <<>>
    [] vendor = "codex" ->
         IF config.useWebSearch
         THEN << <<"--enable">>, <<"web_search_request">> >>
         ELSE <<>>

getArgumentModel(vendor, config) ==
  IF vendor = "codex"
  THEN (IF Truthy(config.model) THEN << <<"-m">>, config.model >> ELSE <<>>)
       \o (IF Truthy(config.reasoningEffort)
           THEN << <<"-c">>,
                   <<"model_reasoning_effort=", DQ>> \o config.reasoningEffort
                      \o <<DQ>> >>
           ELSE <<>>)
  ELSE IF Truthy(config.model) THEN << <<"--model">>, config.model >> ELSE <<>>

getArgumentResume_BareId(vendor, sessionId) ==
  IF Truthy(sessionId) THEN << sessionId >> ELSE <<>>

getArgumentResume(vendor, sessionId) ==
  IF Truthy(sessionId)
  THEN << (IF vendor = "codex" THEN <<"resume">> ELSE <<"--resume">>), sessionId >>
  ELSE <<>>

RECURSIVE AddDirs(_)
AddDirs(folders) ==
  IF folders = <<>> THEN <<>>
  ELSE << <<"--add-dir">>, Head(folders) >> \o AddDirs(Tail(folders))

getArgumentDirectories(vendor, config) ==
  CASE vendor = "claude" -> AddDirs(config.workspaceFolders)
    [] vendor = "gemini" -> <<>>
    [] vendor = "codex" ->
         IF Len(config.workspaceFolders) > 0
         THEN << <<"-C">>, Head(config.workspaceFolders) >>
              \o AddDirs(Tail(config.workspaceFolders))
         ELSE <<>>

\* the '<ModeInstructions>' block of the Gemini and Codex prompt argument
ModeInstructionsBlock(modeInstructions) ==
  << <<"<ModeInstructions>">>, modeInstructions.name, modeInstructions.content,
     <<"</ModeInstructions>">> >>

getArgumentPrompt_PromptFirst(vendor, modeInstructions, prompt) ==
  CASE vendor = "claude" ->
         (IF modeInstructions.present
          THEN << <<"--agent">>,
                  <<SQ>> \o modeInstructions.name \o <<SQ>>,
                  <<"--agents">>,
                  <<SQ, "{">> \o JsonString(modeInstructions.name)
                     \o <<":", "{">> \o JsonString(<<"description">>) \o <<":">>
                     \o JsonString(modeInstructions.name \o <<" agent">>)
                     \o <<",">> \o JsonString(<<"prompt">>) \o <<":">>
                     \o JsonString(modeInstructions.content) \o <<"}", "}", SQ>> >>
          ELSE <<>>)
         \o (IF prompt # <<>> THEN << <<"-p">>, prompt >> ELSE <<>>)
    [] vendor = "gemini" ->
         IF modeInstructions.present
         THEN << join(<< prompt, <<>> >> \o ModeInstructionsBlock(modeInstructions),
                      <<LF>>) >>
         ELSE << prompt >>
    [] vendor = "codex" ->
         IF modeInstructions.present
         THEN << join(<< <<"<user_request>">>, prompt, <<"</user_request>">>, <<>> >>
                        \o ModeInstructionsBlock(modeInstructions),
                      <<LF>>) >>
         ELSE << prompt >>

getArgumentPrompt(vendor, modeInstructions, prompt) ==
  CASE vendor = "claude" ->
         (IF modeInstructions.present
          THEN << <<"--agent">>,
                  <<SQ>> \o modeInstructions.name \o <<SQ>>,
                  <<"--agents">>,
                  <<SQ, "{">> \o JsonString(modeInstructions.name)
                     \o <<":", "{">> \o JsonString(<<"description">>) \o <<":">>
                     \o JsonString(modeInstructions.name \o <<" agent">>)
                     \o <<",">> \o JsonString(<<"prompt">>) \o <<":">>
                     \o JsonString(modeInstructions.content) \o <<"}", "}", SQ>> >>
          ELSE <<>>)
         \o (IF prompt # <<>> THEN << <<"-p">>, prompt >> ELSE <<>>)
    [] vendor = "gemini" ->
         IF modeInstructions.present
         THEN << join(ModeInstructionsBlock(modeInstructions) \o << <<>>, prompt >>,
                      <<LF>>) >>
         ELSE << prompt >>
    [] vendor = "codex" ->
         IF modeInstructions.present
         THEN << join(ModeInstructionsBlock(modeInstructions)
                        \o << <<>>, <<"<user_request>">>, prompt,
                              <<"</user_request>">> >>,
                      <<LF>>) >>
         ELSE << prompt >>

\* the flag groups of a vector, in the order buildCliOptions pushes them
FlagGroups(vendor, config, resumeSessionId) ==
  IF vendor = "codex"
  THEN << <<"exec">> >>
       \o getArgumentDirectories(vendor, config)
       \o getArgumentOutputFormat(vendor)
       \o getArgumentAllowedTools(vendor, config)
       \o getArgumentModel(vendor, config)
       \o getArgumentResume(vendor, resumeSessionId)
  ELSE getArgumentOutputFormat(vendor)
       \o getArgumentAllowedTools(vendor, config)
       \o getArgumentModel(vendor, config)
       \o getArgumentResume(vendor, resumeSessionId)
       \o getArgumentDirectories(vendor, config)

buildCliOptions(vendor, config, options) ==
  [command |-> <<vendor>>,
   args |-> FlagGroups(vendor, config, options.resumeSessionId)
            \o getArgumentPrompt(vendor, options.modeInstructions, options.prompt)]

\* String.prototype.replace(/x/g, y) for a one-character pattern
RECURSIVE replaceAll(_, _, _)
replaceAll(str, ch, by) ==
  IF str = <<>> THEN <<>>
  ELSE (IF Head(str) = ch THEN by ELSE <<Head(str)>>) \o replaceAll(Tail(str), ch, by)

IsNewline(ch) == ch \in {CR, LF}

\* String.prototype.replace(/[\r\n]+/g, ' ')
RECURSIVE replaceNewlineRuns(_)
replaceNewlineRuns(str) ==
  IF str = <<>> THEN <<>>
  ELSE IF IsNewline(Head(str))
       THEN IF Len(str) >= 2 /\ IsNewline(str[2])
            THEN replaceNewlineRuns(Tail(str))
            ELSE <<SP>> \o replaceNewlineRuns(Tail(str))
       ELSE <<Head(str)>> \o replaceNewlineRuns(Tail(str))

escapeShellArg(platform, arg) ==
  IF platform = "win32"
  THEN <<DQ>>
       \o replaceNewlineRuns(replaceAll(replaceAll(arg, BS, <<BS, BS>>), DQ, <<BS, DQ>>))
       \o <<DQ>>
  ELSE <<SQ>> \o replaceAll(arg, SQ, <<SQ, BS, SQ, SQ>>) \o <<SQ>>

\* args.map((arg) => this.escapeShellArg(arg))
EscapeAll_PromptOnly(platform, builderArgs) ==
  [i \in 1..Len(builderArgs) |->
     IF i = Len(builderArgs) THEN escapeShellArg(platform, builderArgs[i])
     ELSE builderArgs[i]]

EscapeAll(platform, builderArgs) ==
  [i \in 1..Len(builderArgs) |-> escapeShellArg(platform, builderArgs[i])]

\* spawn(command, allArgs, {shell: true}): the command line the shell gets
CommandLine(command, allArgs) == join(<<command>> \o allArgs, <<SP>>)

\* The state of a shell reading a command line: the finished words, the
\* word in progress, whether a word is in progress (a quoted empty word
\* counts), the quoting mode, the backslashes read and not yet used, and
\* whether the command has ended.
ShellStart ==
  [words |-> <<>>, cur |-> <<>>, open |-> FALSE, mode |-> "none", pending |-> 0,
   done |-> FALSE]

EndWord(w) ==
  IF w.open THEN [w EXCEPT !.words = Append(w.words, w.cur), !.cur = <<>>,
                           !.open = FALSE]
  ELSE w

Put(w, chars) == [w EXCEPT !.cur = w.cur \o chars, !.open = TRUE]

\* sh -c, one character: mode "none" is unquoted text, "single" inside
\* '...', "double" inside "..."; pending = 1 after a backslash that escapes
\* the next character.  An unquoted newline ends the command.
PosixStep(w, ch) ==
  IF w.done THEN w
  ELSE IF w.mode = "single"
       THEN IF ch = SQ THEN [w EXCEPT !.mode = "none"] ELSE Put(w, <<ch>>)
  ELSE IF w.pending = 1
       THEN IF ch = LF THEN [w EXCEPT !.pending = 0]
            ELSE IF w.mode = "double" /\ ch \notin {DQ, BS}
                 THEN [Put(w, <<BS, ch>>) EXCEPT !.pending = 0]
                 ELSE [Put(w, <<ch>>) EXCEPT !.pending = 0]
  ELSE IF ch = BS THEN [w EXCEPT !.pending = 1]
  ELSE IF w.mode = "double"
       THEN IF ch = DQ THEN [w EXCEPT !.mode = "none"] ELSE Put(w, <<ch>>)
  ELSE IF ch = LF THEN [EndWord(w) EXCEPT !.done = TRUE]
  ELSE IF ch = SP THEN EndWord(w)
  ELSE IF ch = SQ THEN [Put(w, <<>>) EXCEPT !.mode = "single"]
  ELSE IF ch = DQ THEN [Put(w, <<>>) EXCEPT !.mode = "double"]
  ELSE Put(w, <<ch>>)

\* cmd.exe /d /s /c and the C runtime of the child, one character: the
\* command ends at the first newline, quoted or not; 2n backslashes before
\* a double quote are n backslashes and the quote opens or closes a quoted
\* part (mode "double"), 2n+1 backslashes before a double quote are n
\* backslashes and a literal quote, any other backslash is literal.
WindowsStep(w, ch) ==
  IF w.done THEN w
  ELSE IF IsNewline(ch)
       THEN [EndWord(IF w.pending > 0 THEN Put(w, Repeat(w.pending, BS)) ELSE w)
               EXCEPT !.done = TRUE, !.pending = 0]
  ELSE IF ch = BS THEN [w EXCEPT !.pending = w.pending + 1]
  ELSE IF ch = DQ
       THEN IF w.pending % 2 = 0
            THEN [Put(w, Repeat(w.pending \div 2, BS))
                    EXCEPT !.pending = 0,
                           !.mode = IF w.mode = "double" THEN "none" ELSE "double"]
            ELSE [Put(w, Repeat(w.pending \div 2, BS) \o <<DQ>>) EXCEPT !.pending = 0]
  ELSE LET flushed == IF w.pending > 0
                      THEN [Put(w, Repeat(w.pending, BS)) EXCEPT !.pending = 0]
                      ELSE w
       IN IF ch = SP /\ w.mode = "none" THEN EndWord(flushed)
          ELSE Put(flushed, <<ch>>)

\* the shell reads the characters of a line from left to right
RECURSIVE ReadLine(_, _, _)
ReadLine(platform, line, w) ==
  IF line = <<>> THEN w
  ELSE IF Len(line) = 1
       THEN IF platform = "win32" THEN WindowsStep(w, line[1])
            ELSE PosixStep(w, line[1])
       ELSE LET half == Len(line) \div 2
                read == ReadLine(platform, SubSeq(line, 1, half), w)
            IN IF read.done THEN read
               ELSE ReadLine(platform, SubSeq(line, half + 1, Len(line)), read)

\* end of the line: backslashes not yet used are literal
EndLine(w) ==
  EndWord(IF w.pending > 0 /\ ~w.done THEN Put(w, Repeat(w.pending, BS)) ELSE w).words

\* the argument vector of the child (its argv without the command name)
ShellWords(platform, line) == Tail(EndLine(ReadLine(platform, line, ShellStart)))

\* the inputs of a run: every configuration with a few prompts, and every
\* prompt text with a few configurations
PromptSamples == {<<>>, <<"a">>, <<LF, DQ, SQ>>}

ArgInputs ==
  { [vendor |-> v, platform |-> pf, config |-> c,
     options |-> [resumeSessionId |-> r, modeInstructions |-> mi, prompt |-> p]] :
      v \in Vendors, pf \in Platforms, c \in Configs, r \in ResumeIds,
      mi \in ModeChoices, p \in PromptSamples }
  \cup
  { [vendor |-> "gemini", platform |-> pf, config |-> NoConfig,
     options |-> [resumeSessionId |-> Undefined,
                  modeInstructions |-> NoModeInstructions, prompt |-> p]] :
      pf \in Platforms, p \in ArgStrings }

InitArgs ==
  /\ InitRun
  /\ parse = ParseIdle
  /\ two = TwoIdle
  /\ args \in { [phase |-> "options", input |-> inp, built |-> <<>>,
                 allArgs |-> <<>>, argv |-> <<>>] : inp \in ArgInputs }
  /\ chat = ChatIdle
  /\ store = StoreIdle
  /\ exec = ExecIdle

\* run(): buildCliOptions, escapeShellArg on every argument, spawn
argsRun ==
  /\ args.phase = "options"
  /\ LET built == buildCliOptions(args.input.vendor, args.input.config,
                                  args.input.options).args
     IN args' = [args EXCEPT !.phase = "spawned",
                             !.built = built,
                             !.allArgs = EscapeAll(args.input.platform, built)]
  /\ UNCHANGED <<runVars, parse, two, chat, store, exec>>

\* the shell runs the command line and the child receives its arguments
shellExec ==
  /\ args.phase = "spawned"
  /\ args' = [args EXCEPT !.phase = "started",
                          !.argv = ShellWords(args.input.platform,
                                     CommandLine(<<args.input.vendor>>, args.allArgs))]
  /\ UNCHANGED <<runVars, parse, two, chat, store, exec>>

NextArgs == argsRun \/ shellExec

SpecArgs == InitArgs /\ [][NextArgs]_vars

\* ------------------------------------------------------------------------
\* Specification SpecStore: one SessionStore instance and the file
\* .github/copilot-cli-agents.json, which other writers change too.  Of a
\* CliSessionInfo only cliSessionId is kept; the two time stamps are not
\* read by any getter modelled here.
\* ------------------------------------------------------------------------
STORE_VERSION == 1

CopilotIds == {"v1", "v2"}

CliTypes == {"gemini", "claude"}

CliIds == {<<"x">>, <<"y">>}

\* sessions: {} ; a missing mapping or a missing cliType entry is Undefined
NoSessions == [c \in CopilotIds |-> [t \in CliTypes |-> Undefined]]

\* the file: absent, text that JSON.parse rejects, or store data
NoFile == [kind |-> "absent", version |-> 0, sessions |-> NoSessions]

Garbage == [kind |-> "garbage", version |-> 0, sessions |-> NoSessions]

FileOf(data) == [kind |-> "json", version |-> data.version, sessions |-> data.sessions]

\* what writers other than this instance put into the file
ExternalData ==
  { [version |-> v, sessions |-> [NoSessions EXCEPT ![c][t] = id]] :
      v \in {STORE_VERSION, 2}, c \in CopilotIds, t \in CliTypes, id \in CliIds }

load_Cached(st) ==
  IF st.saved THEN st.written
  ELSE IF st.file.kind = "json" /\ st.file.version = STORE_VERSION
       THEN [version |-> st.file.version, sessions |-> st.file.sessions]
       ELSE [version |-> STORE_VERSION, sessions |-> NoSessions]

load(st) ==
  IF st.file.kind = "json" /\ st.file.version = STORE_VERSION
  THEN [version |-> st.file.version, sessions |-> st.file.sessions]
  ELSE [version |-> STORE_VERSION, sessions |-> NoSessions]

\* fs.writeFileSync may throw; save logs the error and returns
save(st, data, written) ==
  [st EXCEPT !.file = IF written THEN FileOf(data) ELSE st.file,
             !.saved = TRUE,
             !.written = data]

InitStore ==
  /\ InitRun
  /\ parse = ParseIdle
  /\ two = TwoIdle
  /\ args = ArgsIdle
  /\ chat = ChatIdle
  /\ store = [file |-> NoFile, saved |-> FALSE,
              written |-> [version |-> STORE_VERSION, sessions |-> NoSessions],
              op |-> "new", copilotSessionId |-> "v1", cliType |-> "gemini",
              returned |-> Undefined]
  /\ exec = ExecIdle

getCliSessionId(copilotSessionId, cliType) ==
  /\ store' = [store EXCEPT !.op = "get",
                            !.copilotSessionId = copilotSessionId,
                            !.cliType = cliType,
                            !.returned = load(store).sessions[copilotSessionId][cliType]]
  /\ UNCHANGED <<runVars, parse, two, args, chat, exec>>

setCliSessionId(copilotSessionId, cliType, cliSessionId, written) ==
  /\ LET data == load(store)
         next == [data EXCEPT !.sessions[copilotSessionId][cliType] = cliSessionId]
     IN store' = [save(store, next, written) EXCEPT !.op = "set",
                                                    !.copilotSessionId = copilotSessionId,
                                                    !.cliType = cliType,
                                                    !.returned = Undefined]
  /\ UNCHANGED <<runVars, parse, two, args, chat, exec>>

\* another process writes the file, replaces it by unreadable text, or
\* deletes it
externalWrite(file) ==
  /\ store.file # file
  /\ store' = [store EXCEPT !.file = file, !.op = "external", !.returned = Undefined]
  /\ UNCHANGED <<runVars, parse, two, args, chat, exec>>

NextStore ==
  \/ \E c \in CopilotIds, t \in CliTypes : getCliSessionId(c, t)
  \/ \E c \in CopilotIds, t \in CliTypes, id \in CliIds, written \in BOOLEAN :
        setCliSessionId(c, t, id, written)
  \/ \E data \in ExternalData : externalWrite(FileOf(data))
  \/ externalWrite(Garbage)
  \/ externalWrite(NoFile)

SpecStore == InitStore /\ [][NextStore]_vars

\* ------------------------------------------------------------------------
\* Specification SpecChat: the turns of one chat with one participant
\* (createParticipantHandler, the /session and /handoff commands,
\* runCliWithStreaming and ChatSessionManager).  A run of the CLI is one
\* step whose events and result are chosen freely.  The opening of a
\* marker, "[](cca:" or "[](cca-agent:", is one symbol of the text.
\* ------------------------------------------------------------------------
SESSION_MARKER == "[](cca:"
AGENT_MARKER == "[](cca-agent:"
RP == ")"

MaxTurns == 2

\* a part of a response: a ChatResponseMarkdownPart or a progress part
Markdown(text) == [markdown |-> TRUE, value |-> text]

Progress(text) == [markdown |-> FALSE, value |-> text]

RequestTurn == [response |-> FALSE, parts |-> <<>>]

ResponseTurn(parts) == [response |-> TRUE, parts |-> parts]

\* the characters other than ')' that a text starts with
RECURSIVE NotParen(_)
NotParen(text) ==
  IF text = <<>> \/ Head(text) = RP THEN <<>>
  ELSE <<Head(text)>> \o NotParen(Tail(text))

\* text.match(/\[\]\(cca:([^)]+)\)/)[1] for open = "[](cca:", and the same
\* for the agent pattern; Undefined when nothing matches
RECURSIVE matchMarker(_, _)
matchMarker(text, open) ==
  IF text = <<>> THEN Undefined
  ELSE LET group == NotParen(Tail(text))
       IN IF Head(text) = open /\ group # <<>> /\ Len(group) < Len(Tail(text))
          THEN group
          ELSE matchMarker(Tail(text), open)

\* the first match in the markdown parts of a response, in their order
RECURSIVE MatchInParts(_, _)
MatchInParts(parts, open) ==
  IF parts = <<>> THEN Undefined
  ELSE IF Head(parts).markdown /\ matchMarker(Head(parts).value, open) # Undefined
       THEN matchMarker(Head(parts).value, open)
       ELSE MatchInParts(Tail(parts), open)

RECURSIVE findSessionId(_)
findSessionId(history) ==
  IF history = <<>> THEN Undefined
  ELSE IF Head(history).response
          /\ MatchInParts(Head(history).parts, SESSION_MARKER) # Undefined
       THEN MatchInParts(Head(history).parts, SESSION_MARKER)
       ELSE findSessionId(Tail(history))

saveSessionId(sessionId) == Markdown(<<LF, SESSION_MARKER>> \o sessionId \o <<RP>>)

RECURSIVE findAgentName(_)
findAgentName(history) ==
  IF history = <<>> THEN Undefined
  ELSE LET turn == history[Len(history)]
       IN IF turn.response /\ MatchInParts(turn.parts, AGENT_MARKER) # Undefined
          THEN MatchInParts(turn.parts, AGENT_MARKER)
          ELSE findAgentName(SubSeq(history, 1, Len(history) - 1))

saveAgentName(agentName) == Markdown(<<LF, AGENT_MARKER>> \o agentName \o <<RP>>)

shouldPassAgentInstructions(history, currentAgentName) ==
  IF ~Truthy(currentAgentName) THEN FALSE
  ELSE findAgentName(history) # currentAgentName

\* handleStreamContent: the part a streamed event becomes
handleStreamContent(content) ==
  IF content.type \in {"tool_use", "tool_result", "reasoning"}
  THEN Progress(content.content)
  ELSE Markdown(content.content)

RECURSIVE StreamParts(_)
StreamParts(events) ==
  IF events = <<>> THEN <<>>
  ELSE <<handleStreamContent(Head(events))>> \o StreamParts(Tail(events))

TextEvent(text) == [type |-> "text", content |-> text, toolName |-> Undefined]

\* what a run of the CLI may stream and report
RunEvents ==
  { << TextEvent(<<"a">>) >>,
    << TextEvent(<<"a", SESSION_MARKER, "t", RP>>) >>,
    << [type |-> "tool_use", content |-> <<>>, toolName |-> <<"b">>],
       TextEvent(<<AGENT_MARKER, "A", RP>>) >> }

RunResults ==
  { [success |-> TRUE, sessionId |-> id, error |-> Undefined] :
      id \in {Undefined, <<"s">>, <<"t">>} }
  \cup { [success |-> FALSE, sessionId |-> Undefined, error |-> <<"e">>] }

AgentNames == {Undefined, <<"A">>, <<"B", RP>>}

\* requests without a command, with /passAgent and with a command that is
\* not registered, and the commands that read neither prompt nor agent
Requests ==
  { [command |-> "", prompt |-> p, agent |-> a] : p \in {<<SP>>, <<"q">>}, a \in AgentNames }
  \cup { [command |-> "passAgent", prompt |-> p, agent |-> <<"A">>] : p \in {<<SP>>, <<"q">>} }
  \cup { [command |-> c, prompt |-> <<"q">>, agent |-> Undefined] :
           c \in {"foo", "doctor", "session", "handoff"} }

\* what a turn did, beside the parts it wrote
NoOutcome ==
  [kind |-> "new", handled |-> FALSE, ranCli |-> FALSE, resumeSessionId |-> Undefined,
   agent |-> Undefined, passed |-> FALSE, reported |-> Undefined,
   terminal |-> FALSE, sent |-> <<>>, parts |-> <<>>, generic |-> 0]

\* participantCommands, and findCommand: the place of the command with
\* that name in the list, 0 when there is none
participantCommands == <<"doctor", "session", "handoff", "passAgent">>

findCommand(commandName) ==
  IF \E i \in 1..Len(participantCommands) : participantCommands[i] = commandName
  THEN CHOOSE i \in 1..Len(participantCommands) : participantCommands[i] = commandName
  ELSE 0

\* handleDoctor: the report of the health check, or the message of the
\* error it caught
handleDoctor(healthy) ==
  [NoOutcome EXCEPT
     !.kind = "doctor",
     !.handled = TRUE,
     !.parts = << Progress(<<"Checking CLI status">>),
                  IF healthy THEN Markdown(<<"Health Report">>)
                  ELSE Markdown(<<"Error during health check">>) >>]

handleSession(history) ==
  LET sessionId == findSessionId(history)
  IN [NoOutcome EXCEPT
        !.kind = "session",
        !.handled = TRUE,
        !.parts = IF Truthy(sessionId)
                  THEN << Markdown(<<"Current Session">>),
                          Markdown(<<"CLI">>),
                          Markdown(<<"Session ID">> \o sessionId),
                          Markdown(<<"--resume">> \o sessionId) >>
                  ELSE << Markdown(<<"No Active Session">>),
                          Markdown(<<"Start a conversation">>) >>]

handleHandoff_NoCheck(history, vendor) ==
  LET sessionId == findSessionId(history)
  IN [NoOutcome EXCEPT
        !.kind = "handoff",
        !.handled = TRUE,
        !.terminal = TRUE,
        !.sent = join(<< <<vendor>> >> \o getArgumentModel(vendor, NoConfig)
                        \o getArgumentResume(vendor, sessionId)
                        \o getArgumentDirectories(vendor, NoConfig), <<SP>>),
        !.parts = << Markdown(<<"Handoff Successful">>),
                     Markdown(<<"session">> \o sessionId),
                     Markdown(<<"continue in the terminal">>) >>]

handleHandoff(history, vendor) ==
  LET sessionId == findSessionId(history)
  IN IF ~Truthy(sessionId)
     THEN [NoOutcome EXCEPT
             !.kind = "handoff",
             !.handled = TRUE,
             !.parts = << Markdown(<<"No Active Session">>),
                          Markdown(<<"You need an active session">>),
                          Markdown(<<"Start a conversation">>) >>]
     ELSE [NoOutcome EXCEPT
             !.kind = "handoff",
             !.handled = TRUE,
             !.terminal = TRUE,
             !.sent = join(<< <<vendor>> >> \o getArgumentModel(vendor, NoConfig)
                             \o getArgumentResume(vendor, sessionId)
                             \o getArgumentDirectories(vendor, NoConfig), <<SP>>),
             !.parts = << Markdown(<<"Handoff Successful">>),
                          Markdown(<<"session">> \o sessionId),
                          Markdown(<<"continue in the terminal">>) >>]

\* runCliWithStreaming with the events and the cliResult of its run
runCliWithStreaming(history, prompt, agentName, events, cliResult) ==
  IF trim(prompt) = <<>>
  THEN [NoOutcome EXCEPT !.kind = "blank",
                         !.parts = << Markdown(<<"Please enter a question">>) >>]
  ELSE LET existingSessionId == findSessionId(history)
           shouldPassInstructions == shouldPassAgentInstructions(history, agentName)
       IN [NoOutcome EXCEPT
             !.kind = "run",
             !.ranCli = TRUE,
             !.resumeSessionId = existingSessionId,
             !.agent = agentName,
             !.passed = shouldPassInstructions,
             !.reported = cliResult.sessionId,
             !.parts =
                StreamParts(events)
                \o (IF Truthy(cliResult.sessionId) /\ ~Truthy(existingSessionId)
                    THEN << saveSessionId(cliResult.sessionId) >> ELSE <<>>)
                \o (IF Truthy(agentName) /\ shouldPassInstructions
                    THEN << saveAgentName(agentName) >> ELSE <<>>)
                \o (IF ~cliResult.success /\ Truthy(cliResult.error)
                    THEN << Markdown(<<"Error:">> \o cliResult.error) >> ELSE <<>>)]

\* mutant: /passAgent reports that it did not handle the request
handlePassAgent_NotHandled(history, prompt, agentName, events, cliResult) ==
  runCliWithStreaming(history, prompt, agentName, events, cliResult)

\* handlePassAgent: the run of the CLI with the mode instructions of the
\* request; the command is handled whatever the run gives
handlePassAgent(history, prompt, agentName, events, cliResult) ==
  [runCliWithStreaming(history, prompt, agentName, events, cliResult)
     EXCEPT !.handled = TRUE]

ChatVendor == "claude"

InitChat ==
  /\ InitRun
  /\ parse = ParseIdle
  /\ two = TwoIdle
  /\ args = ArgsIdle
  /\ chat = [history |-> <<>>, turns |-> 0, last |-> NoOutcome, first |-> Undefined,
             previous |-> NoOutcome, command |-> ""]
  /\ store = StoreIdle
  /\ exec = ExecIdle

\* the handler of createParticipantHandler for one request: the handler of
\* a registered command, then, unless that handler returned true, the
\* generic run; VS Code then adds the request and the response to the
\* history of the chat
chatTurn(request, events, cliResult) ==
  /\ chat.turns < MaxTurns
  /\ LET command == IF request.command = "" THEN 0 ELSE findCommand(request.command)
         byCommand ==
           IF command = 0 THEN NoOutcome
           ELSE IF participantCommands[command] = "doctor"
                THEN handleDoctor(cliResult.success)
           ELSE IF participantCommands[command] = "session"
                THEN handleSession(chat.history)
           ELSE IF participantCommands[command] = "handoff"
                THEN handleHandoff(chat.history, ChatVendor)
           ELSE handlePassAgent(chat.history, request.prompt, request.agent,
                                events, cliResult)
         generic == runCliWithStreaming(chat.history, request.prompt, request.agent,
                                        events, cliResult)
         outcome ==
           IF byCommand.handled THEN byCommand
           ELSE [generic EXCEPT !.generic = 1,
                                !.parts = byCommand.parts \o generic.parts]
     IN chat' = [history |-> chat.history \o <<RequestTurn, ResponseTurn(outcome.parts)>>,
                 turns |-> chat.turns + 1,
                 last |-> outcome,
                 first |-> IF chat.first = Undefined /\ outcome.kind = "run"
                              /\ ~Truthy(outcome.resumeSessionId)
                              /\ Truthy(outcome.reported)
                           THEN outcome.reported ELSE chat.first,
                 previous |-> chat.last,
                 command |-> request.command]
  /\ UNCHANGED <<runVars, parse, two, args, store, exec>>

NextChat ==
  \E request \in Requests, events \in RunEvents, cliResult \in RunResults :
     chatTurn(request, events, cliResult)

SpecChat == InitChat /\ [][NextChat]_vars

\* ------------------------------------------------------------------------
\* Specification SpecExec: one call of executeCommand (cli/utils).  The
\* child writes symbols on stdout and stderr; the timer fires unless it has
\* been cleared.  exec.events is the order in which the timeout, 'error'
\* and 'close' occurred; exec.by is the one whose resolve or reject call
\* settled the promise.
\* ------------------------------------------------------------------------
\* the child writes at most MaxOut symbols on each channel
MaxOut == 3

TimedOut == <<"Command execution timed out">>

\* Promise resolve / reject: only the first call settles the promise
settlePromise(e, by, state, value) ==
  IF e.state = "pending"
  THEN [e EXCEPT !.state = state, !.value = value, !.by = by]
  ELSE e

\* executeCommand: spawn, start the timer, register the four listeners
executeCommand(ok) ==
  /\ exec.phase = "idle"
  /\ exec' = [exec EXCEPT !.phase = "running", !.spawnOk = ok, !.timer = "armed"]
  /\ UNCHANGED <<runVars, parse, two, args, chat, store>>

\* childProcess.stdout.on('data')
execStdout ==
  /\ exec.phase = "running" /\ exec.spawnOk /\ ~exec.closed
  /\ Len(exec.stdout) < MaxOut
  /\ exec' = [exec EXCEPT !.stdout = Append(@, "o")]
  /\ UNCHANGED <<runVars, parse, two, args, chat, store>>

\* childProcess.stderr.on('data')
execStderr ==
  /\ exec.phase = "running" /\ exec.spawnOk /\ ~exec.closed
  /\ Len(exec.stderr) < MaxOut
  /\ exec' = [exec EXCEPT !.stderr = Append(@, "e")]
  /\ UNCHANGED <<runVars, parse, two, args, chat, store>>

\* the 'error' listener: clearTimeout, reject(error)
onExecError(e, message) ==
  [settlePromise(e, "error", "rejected", message)
     EXCEPT !.timer = IF @ = "armed" THEN "cleared" ELSE @,
            !.events = Append(@, "error")]

\* the timer callback: kill('SIGTERM'), then reject.  A kill that cannot
\* deliver the signal emits 'error' before it returns.
execTimeout(killFails) ==
  /\ exec.phase = "running" /\ exec.spawnOk
  /\ exec.timer = "armed"
  /\ LET fired == [exec EXCEPT !.timer = "fired",
                               !.events = Append(@, "timeout"),
                               !.kills = Append(@, "SIGTERM"),
                               !.killFailed = killFails]
         killed == IF killFails THEN onExecError(fired, <<"kill EPERM">>) ELSE fired
     IN exec' = settlePromise(killed, "timeout", "rejected", TimedOut)
  /\ UNCHANGED <<runVars, parse, two, args, chat, store>>

\* 'error' of a child that could not be spawned
execError ==
  /\ exec.phase = "running" /\ ~exec.spawnOk
  /\ "error" \notin { exec.events[i] : i \in 1..Len(exec.events) }
  /\ exec' = onExecError(exec, <<"spawn ENOENT">>)
  /\ UNCHANGED <<runVars, parse, two, args, chat, store>>

\* mutant: the 'close' listener leaves the timer running
execClose_TimerKept(code) ==
  /\ exec.phase = "running" /\ ~exec.closed
  /\ IF exec.spawnOk THEN code \in {"0", "1"} \/ (code = "null" /\ exec.kills # <<>>)
                     ELSE code = "-2" /\ exec.events # <<>>
  /\ exec' = [ (IF code = "0"
                THEN settlePromise(exec, "close", "resolved", exec.stdout)
                ELSE settlePromise(exec, "close", "rejected",
                            IF exec.stderr # <<>> THEN exec.stderr
                            ELSE <<"Command exited with code ", code>>))
               EXCEPT !.closed = TRUE,
                      !.events = Append(@, "close")]
  /\ UNCHANGED <<runVars, parse, two, args, chat, store>>

\* the 'close' listener: clearTimeout, resolve(stdout) for code 0, reject
\* with the stderr text or the exit code otherwise
execClose(code) ==
  /\ exec.phase = "running" /\ ~exec.closed
  /\ IF exec.spawnOk THEN code \in {"0", "1"} \/ (code = "null" /\ exec.kills # <<>>)
                     ELSE code = "-2" /\ exec.events # <<>>
  /\ exec' = [ (IF code = "0"
                THEN settlePromise(exec, "close", "resolved", exec.stdout)
                ELSE settlePromise(exec, "close", "rejected",
                            IF exec.stderr # <<>> THEN exec.stderr
                            ELSE <<"Command exited with code ", code>>))
               EXCEPT !.timer = IF @ = "armed" THEN "cleared" ELSE @,
                      !.closed = TRUE,
                      !.events = Append(@, "close")]
  /\ UNCHANGED <<runVars, parse, two, args, chat, store>>

InitExec ==
  /\ InitRun
  /\ parse = ParseIdle
  /\ two = TwoIdle
  /\ args = ArgsIdle
  /\ chat = ChatIdle
  /\ store = StoreIdle
  /\ exec = [phase |-> "idle", spawnOk |-> TRUE, timer |-> "none", state |-> "pending",
             value |-> <<>>, by |-> "none", stdout |-> <<>>, stderr |-> <<>>,
             kills |-> <<>>, killFailed |-> FALSE, closed |-> FALSE, events |-> <<>>]

NextExec ==
  \/ \E ok \in BOOLEAN : executeCommand(ok)
  \/ execStdout
  \/ execStderr
  \/ \E killFails \in BOOLEAN : execTimeout(killFails)
  \/ execError
  \/ \E code \in ExitCodes : execClose(code)

SpecExec == InitExec /\ [][NextExec]_vars

\* ------------------------------------------------------------------------
\* Properties
\* ------------------------------------------------------------------------

\* concatenation of the payloads of the text events of a sequence of events
RECURSIVE TextConcat(_)
TextConcat(events) ==
  IF events = <<>> THEN <<>>
  ELSE (IF Head(events).type = "text" THEN Head(events).content ELSE <<>>)
       \o TextConcat(Tail(events))

\* C1: whatever 'close' and 'error' events the child delivers, resolve is
\* invoked exactly once: never a second time, and once as soon as a close
\* or error event has been handled (here: handled without an exception of
\* the callback, so that a violation is a second invocation).
C1_ResolveInvokedExactlyOnce ==
  /\ resolveCalls <= 1
  /\ (closeEvents + errorEvents > 0 /\ uncaught = 0) => resolveCalls = 1

\* C2: when the streaming callback throws, in a data handler or in the flush
\* of the trailing line on close, the run is still resolved once the process
\* has closed.
C2_ClosedRunIsResolved ==
  phase = "closed" => settled

\* C3: a throwing callback loses no line: every content event carried by the
\* lines handed to the handlers so far has been passed to the callback and
\* its text has been accumulated.
C3_LaterLinesStillDelivered ==
  /\ delivered = expected
  /\ context.fullContent = TextConcat(expected)

\* C4: when the cancellation signal fired while the child was streaming and
\* the child then emitted 'close' (no 'error' in between), the run is
\* resolved and its content is the text of the Text events delivered.
C4_CancelledRunResolvesWithPartialText ==
  (aborted /\ kills # <<>> /\ errorEvents = 0 /\ phase = "closed")
    => (settled /\ result.content = TextConcat(delivered))

\* C5: a cancellation that fires while the spawned child has not exited
\* requests termination, with SIGTERM; kill is never called otherwise and
\* never a second time.
C5_TerminationRequestedOnce ==
  [][/\ (~aborted /\ aborted' /\ spawnOk /\ phase = "running") => kills' = <<"SIGTERM">>
     /\ kills' # kills => (kills = <<>> /\ kills' = <<"SIGTERM">> /\ ~aborted /\ aborted')
    ]_vars

C5_Witness ==
  /\ aborted /\ kills = <<"SIGTERM">>
  /\ phase = "running" /\ delivered # <<>> /\ outRest # <<>>

\* C6: cancellation does not resolve the run: the promise is settled only in
\* a step that handles a 'close' or an 'error' event of the child, and a run
\* that has seen neither is unresolved.
C6_OnlyCloseOrErrorResolves ==
  [][/\ settled' # settled => closeEvents' + errorEvents' > closeEvents + errorEvents
     /\ (closeEvents' + errorEvents' = 0) => ~settled'
    ]_vars

C6_Witness ==
  /\ aborted /\ kills # <<>> /\ ~settled
  /\ phase = "running" /\ outRest = <<>> /\ delivered # <<>>

Consumed ==
  SubSeq(Scenarios[scenario].out, 1, Len(Scenarios[scenario].out) - Len(outRest))

\* what the same bytes give when they arrive as one chunk
OneChunk(bytes, closed) ==
  LET h0 == [fullContent |-> <<>>, extractedSessionId |-> Undefined, delivered |-> <<>>,
             sidsSeen |-> <<>>, k |-> 0, threw |-> FALSE]
      r == processChunkWithBuffer(bytes, <<>>, h0, FALSE)
  IN  IF closed THEN processRemainingBuffer(r.buffer, r.h) ELSE r.h

\* C8: for a fixed stdout byte stream (nothing on stderr, a callback that
\* does not throw) every chunking gives the events, the content and the
\* session id that the stream gives as a single chunk.
C8_ChunkBoundaryIndependence ==
  (phase # "idle" /\ spawnOk /\ Scenarios[scenario].err = <<>> /\ throws = 0)
    => LET one == OneChunk(Consumed, phase = "closed")
       IN  /\ delivered = one.delivered
           /\ context.fullContent = one.fullContent
           /\ context.extractedSessionId = one.extractedSessionId

\* C9: the accumulated content is at every moment the concatenation, in
\* delivery order, of the payloads of the Text events passed to the
\* callback, and that is the content the run is resolved with.
C9_ContentIsConcatenationOfText ==
  [][/\ context'.fullContent = TextConcat(delivered')
     /\ (~settled /\ settled') => result'.content = TextConcat(delivered')
    ]_vars

C9_Witness ==
  /\ settled /\ result.content # <<>>
  /\ \E i \in 1..Len(delivered) : delivered[i].type = "tool_use"
  /\ \E i, j \in 1..Len(delivered) : i < j /\ delivered[i].type = "text"
                                          /\ delivered[j].type = "text"

\* C10: the extracted session id is the first non-empty session id among
\* the parse results, later ids never replace it, and the run is resolved
\* with it.
C10_FirstSessionIdWins ==
  [][/\ context'.extractedSessionId =
          (IF sidsSeen' = <<>> THEN Undefined ELSE sidsSeen'[1])
     /\ (~settled /\ settled') => result'.sessionId = context'.extractedSessionId
    ]_vars

C10_Witness ==
  /\ Len(sidsSeen) >= 2 /\ sidsSeen[2] # sidsSeen[1]
  /\ settled /\ result.sessionId = sidsSeen[1]

\* the bytes a step took from a stream
Taken(rest, restAfter) == SubSeq(rest, 1, Len(rest) - Len(restAfter))

\* the content events and the session ids the trailing fragment carries
FlushCarried == ContentsOf(<<context.buffer>>, FALSE)

FlushSids ==
  LET cleanLine == trim(cleanAnsi(context.buffer))
      sid == parseLineWithSession(cleanLine).sessionId
  IN  IF cleanLine # <<>> /\ Truthy(sid) THEN <<sid>> ELSE <<>>

\* the flush of the 'close' step: the trailing fragment goes through the
\* parse path of a complete line, once; a blank buffer gives nothing
FlushedOnce ==
  /\ Len(FlushCarried) <= 1
  /\ delivered' = delivered \o FlushCarried
  /\ origins' = origins \o Repeat(Len(FlushCarried), "flush")
  /\ sidsSeen' = sidsSeen \o FlushSids
  /\ context'.fullContent = context.fullContent \o TextConcat(FlushCarried)
  /\ (trim(context.buffer) = <<>>) =>
        (delivered' = delivered /\ sidsSeen' = sidsSeen /\ context' = context)

\* C11: on 'close' a non-blank trailing stdout fragment without a newline
\* goes through the parse path of a line exactly once, and that happens
\* before the result is resolved: the run is not yet settled when the flush
\* runs and the result it is settled with holds the flushed text and id; a
\* blank or empty buffer parses and delivers nothing; no other step flushes.
C11_FlushOnceBeforeResolve ==
  [][ IF closeEvents' = closeEvents + 1
      THEN /\ FlushedOnce
           /\ (trim(context.buffer) # <<>>) => ~settled
           /\ settled' => /\ result'.content = context'.fullContent
                          /\ result'.sessionId = context'.extractedSessionId
      ELSE \A i \in (Len(origins) + 1)..Len(origins') : origins'[i] # "flush" ]_vars

\* C15: the Run Result of a closed run has success = TRUE exactly when the
\* exit code of the 'close' event is 0; any other code, null included, gives
\* success = FALSE together with an error.
C15_SuccessIffExitCodeZero ==
  (phase = "closed" /\ settled) =>
     /\ result.success <=> (closeCode = "0")
     /\ ~result.success => Truthy(result.error)

\* C15 amended: the same for a run that no 'error' event resolved before
\* its 'close'.
C15_SuccessIffExitCodeZeroOnClose ==
  (phase = "closed" /\ settled /\ errorEvents = 0) =>
     /\ result.success <=> (closeCode = "0")
     /\ ~result.success => Truthy(result.error)

C15_Witness ==
  /\ phase = "closed" /\ settled /\ errorEvents = 0
  /\ closeCode = "null" /\ ~result.success /\ kills # <<>>

\* every stderr chunk's text is appended, unchanged, to stderrContent, and
\* no other step touches it
StderrAccumulated ==
  context'.stderrContent =
     IF phase = "idle" THEN <<>>
     ELSE context.stderrContent \o toString(Taken(errRest, errRest'))

\* the error text of a non-zero exit: the code, and the stderr text if any
ExitErrorText(code, stderrText) ==
  <<"Process exited with code ", code>> \o
  (IF stderrText # <<>> THEN <<"\nStderr: ">> \o stderrText ELSE <<>>)

NativeMessage == IF spawnOk THEN <<"kill EPERM">> ELSE <<"spawn ENOENT">>

\* C17: an 'error' event resolves the run with success = FALSE, the native
\* error's message as error, and the content and session id accumulated up
\* to that point.
C17_ErrorEventResolvesFailure ==
  [][ (errorEvents' = errorEvents + 1) =>
         /\ ~settled /\ settled'
         /\ result' = [success |-> FALSE, content |-> context.fullContent,
                       error |-> NativeMessage,
                       sessionId |-> context.extractedSessionId] ]_vars

C17_Witness ==
  /\ errorEvents = 1 /\ settled /\ ~result.success
  /\ result.error = <<"kill EPERM">>
  /\ result.content # <<>> /\ Truthy(result.sessionId)

\* C18: the promise returned by run() is never rejected: also a failure
\* while the arguments are built or the process is spawned ends in a
\* resolved Run Result.
C18_RunNeverRejects ==
  phase # "rejected"

\* the content events, in line order, of what a step handed to the parser
StepCarried ==
  IF outRest' # outRest /\ phase = "running"
  THEN ContentsOf(CompleteLines(context.buffer \o toString(Taken(outRest, outRest'))), FALSE)
  ELSE IF errRest' # errRest /\ phase = "running"
  THEN ContentsOf(CompleteLines(context.stderrBuffer \o toString(Taken(errRest, errRest'))),
                  TRUE)
  ELSE IF closeEvents' # closeEvents THEN FlushCarried
  ELSE <<>>

StepOrigin ==
  IF outRest' # outRest THEN "stdout" ELSE IF errRest' # errRest THEN "stderr" ELSE "flush"

\* C19: the events of one channel reach the callback in the order of their
\* lines in that channel's stream: a step never removes or reorders what
\* was delivered, and the events it delivers are, in line order, the first
\* events of the lines it completed, all of its own channel.
C19_ChannelOrderKept ==
  [][ LET n == Len(delivered)
          new == SubSeq(delivered', n + 1, Len(delivered'))
      IN  /\ Len(delivered') >= n
          /\ SubSeq(delivered', 1, n) = delivered
          /\ SubSeq(origins', 1, n) = origins
          /\ Len(origins') = Len(delivered')
          /\ Len(new) <= Len(StepCarried)
          /\ new = SubSeq(StepCarried, 1, Len(new))
          /\ \A i \in (n + 1)..Len(origins') : origins'[i] = StepOrigin ]_vars

C19_Witness ==
  /\ Len(origins) = 3
  /\ origins[1] = "stdout" /\ origins[2] = "stderr" /\ origins[3] = "stdout"
  /\ delivered[1].content = <<"E9">> /\ delivered[3].content = <<"b">>

\* { content: null } without a session id, returned normally
EmptyParseResult == [threw |-> FALSE, content |-> NullContent, sessionId |-> Undefined]

\* C12: for an empty string, truncated JSON, free text and JSON that is not
\* an object, parseLineWithSession of every vendor returns normally with no
\* content and no session id, and the line after it is parsed as usual.
C12_MalformedLineGivesEmptyResult ==
  (parse # ParseIdle /\ parse.kind = "malformed") =>
     /\ Len(parse.results) >= 1 => parse.results[1] = EmptyParseResult
     /\ Len(parse.results) = 2 =>
           parse.results[2] = [threw |-> FALSE,
                               content |-> [type |-> "text", content |-> <<"b">>,
                                            toolName |-> Undefined],
                               sessionId |-> Undefined]

C12_Witness ==
  /\ parse # ParseIdle /\ parse.kind = "malformed" /\ parse.vendor = "claude"
  /\ parse.line = NullText /\ Len(parse.results) = 2

C14_SessionStartGivesSessionId ==
  (parse # ParseIdle /\ parse.kind = "session" /\ Len(parse.results) >= 1) =>
     /\ ~parse.results[1].threw
     /\ parse.results[1].content = NullContent
     /\ parse.results[1].sessionId = parse.carried

C14_Witness ==
  /\ parse # ParseIdle /\ parse.kind = "session" /\ parse.vendor = "codex"
  /\ parse.carried = <<"b", "a">> /\ Len(parse.results) >= 1
  /\ parse.results[1].sessionId = <<"b", "a">>

\* C20: two runs in flight on the same runner share no mutable state: in
\* every interleaving of their data and close events the context, the
\* delivered events and the result of each run are those of that run alone.
C20_RunsAreIsolated ==
  \A i \in Runs :
     (two # TwoIdle /\ two.phase[i] # "idle") =>
        /\ two.heap[two.ref[i]] = two.alone[i].ctx
        /\ two.log[i] = two.alone[i].log
        /\ two.promise[i] = two.alone[i].promise

C20_Witness ==
  /\ two # TwoIdle
  /\ two.phase = <<"closed", "closed">>
  /\ two.promise[1].result.content = <<"E9", "b">>
  /\ two.promise[1].result.sessionId = <<"a">>
  /\ two.promise[2].result.content = <<"a">>
  /\ two.promise[2].result.sessionId = <<"b">>
  /\ Len(two.log[1]) = 2 /\ Len(two.log[2]) = 1

\* C25: every Codex item.started line whose item is a command_execution or
\* an mcp_tool_call gives a tool_use event that names the tool: 'shell' for
\* a command execution, the item's tool for an MCP call.
C25_CodexToolBeginGivesToolUse ==
  (parse # ParseIdle /\ parse.kind = "begin" /\ Len(parse.results) >= 1) =>
     /\ parse.results[1].content.type = "tool_use"
     /\ parse.results[1].content.toolName =
           IF parse.line[3] = "c" THEN <<"s", "h", "e", "l", "l">> ELSE <<"b">>

\* C30: once the result of a run is resolved the callback is not called
\* again and no text is accumulated, whatever events follow.
C30_NothingAfterResolution ==
  [][ settled => /\ delivered' = delivered
                 /\ context'.fullContent = context.fullContent ]_vars

\* the options of the vector under construction
ArgsBuilt == args # ArgsIdle /\ args.phase # "options"

\* position of the first argument of the prompt group in the built vector
PromptStart ==
  Len(FlagGroups(args.input.vendor, args.input.config,
                 args.input.options.resumeSessionId)) + 1

\* does text hold part as a run of consecutive characters
Contains(text, part) ==
  \E i \in 1..(Len(text) + 1) : SubSeq(text, i, i + Len(part) - 1) = part

\* C21: with a resume id, the Codex vector is 'exec', then every flag group
\* (directories, output format, tools, model), then 'resume' and the id,
\* then the prompt as its last element; the Claude and Gemini vectors hold
\* '--resume' immediately followed by the id, ahead of the prompt payload.
C21_ResumePlacement ==
  (ArgsBuilt /\ Truthy(args.input.options.resumeSessionId)) =>
     LET built == args.built
         n == Len(built)
         v == args.input.vendor
         c == args.input.config
         id == args.input.options.resumeSessionId
     IN IF v = "codex"
        THEN /\ n >= 4
             /\ built[1] = <<"exec">>
             /\ SubSeq(built, 2, n - 3) =
                  getArgumentDirectories(v, c) \o getArgumentOutputFormat(v)
                    \o getArgumentAllowedTools(v, c) \o getArgumentModel(v, c)
             /\ built[n - 2] = <<"resume">>
             /\ built[n - 1] = id
             /\ Contains(built[n], args.input.options.prompt)
        ELSE \E k \in 1..(n - 1) :
               /\ built[k] = <<"--resume">>
               /\ built[k + 1] = id
               /\ k + 1 < PromptStart

C21_Witness ==
  /\ ArgsBuilt
  /\ args.input.vendor = "codex"
  /\ args.input.options.resumeSessionId = <<"s", "1">>
  /\ args.input.options.modeInstructions.present
  /\ Len(args.input.config.workspaceFolders) = 2
  /\ args.built[Len(args.built) - 2] = <<"resume">>

\* text of the '<ModeInstructions>' block for a name and a content
BlockText(name, content) ==
  <<"<ModeInstructions>", LF>> \o name \o <<LF>> \o content
    \o <<LF, "</ModeInstructions>">>

\* C22: for Gemini and Codex the prompt group is exactly one argument; with
\* mode instructions it begins with the '<ModeInstructions>' block of name
\* and content and the prompt comes after the closing tag; without mode
\* instructions it is the prompt unchanged.
C22_PromptIsOneTaggedArgument ==
  (ArgsBuilt /\ args.input.vendor \in {"gemini", "codex"}) =>
     LET built == args.built
         mi == args.input.options.modeInstructions
         prompt == args.input.options.prompt
         block == BlockText(mi.name, mi.content)
         arg == built[Len(built)]
     IN /\ Len(built) = PromptStart
        /\ IF mi.present
           THEN /\ Len(arg) >= Len(block)
                /\ SubSeq(arg, 1, Len(block)) = block
                /\ Contains(SubSeq(arg, Len(block) + 1, Len(arg)), prompt)
           ELSE arg = prompt

C22_Witness ==
  /\ ArgsBuilt
  /\ args.input.vendor = "codex"
  /\ args.input.options.modeInstructions.present
  /\ args.input.options.modeInstructions.content = <<"c", LF, DQ, "a">>
  /\ args.input.options.prompt = <<LF, DQ, SQ>>
  /\ Len(args.built) = PromptStart

\* C23: the vector handed to spawn has the length and order of the
\* builder's vector, and each of its elements is escapeShellArg of the
\* builder's argument at the same place.
C23_EveryArgumentEscaped ==
  ArgsBuilt =>
     /\ args.built = buildCliOptions(args.input.vendor, args.input.config,
                                     args.input.options).args
     /\ Len(args.allArgs) = Len(args.built)
     /\ \A i \in 1..Len(args.built) :
           args.allArgs[i] = escapeShellArg(args.input.platform, args.built[i])

C23_Witness ==
  /\ ArgsBuilt
  /\ args.input.vendor = "claude"
  /\ Len(args.built) >= 14
  /\ args.input.platform = "posix"
  /\ args.allArgs[1] = <<SQ, "--output-format", SQ>>
  /\ args.input.options.prompt = <<LF, DQ, SQ>>
  /\ args.allArgs[Len(args.allArgs)] = <<SQ, LF, DQ, SQ, BS, SQ, SQ, SQ>>

\* C24: on both platforms the child receives every argument of the
\* builder's vector as exactly one argument equal to it: parsing the
\* escaped arguments with the shell's quoting rules gives the vector back.
C24_EscapeRoundTrips ==
  (args # ArgsIdle /\ args.phase = "started") => args.argv = args.built

\* the cliSessionId the file holds for a key: that of a store of the
\* current version, none in a missing, unreadable or other-version file
InFile(copilotSessionId, cliType) ==
  IF store.file.kind = "json" /\ store.file.version = 1
  THEN store.file.sessions[copilotSessionId][cliType]
  ELSE Undefined

RECURSIVE MarkersIn(_, _)
MarkersIn(text, open) ==
  IF text = <<>> THEN <<>>
  ELSE (IF Head(text) = open
           /\ \E j \in 3..Len(text) :
                 /\ text[j] = RP
                 /\ \A k \in 2..(j - 1) : text[k] # RP
        THEN << NotParen(Tail(text)) >> ELSE <<>>)
       \o MarkersIn(Tail(text), open)

\* every marker of the markdown parts of the responses of a history
RECURSIVE MarkersInParts(_, _)
MarkersInParts(parts, open) ==
  IF parts = <<>> THEN <<>>
  ELSE (IF Head(parts).markdown THEN MarkersIn(Head(parts).value, open) ELSE <<>>)
       \o MarkersInParts(Tail(parts), open)

RECURSIVE MarkersOf(_, _)
MarkersOf(history, open) ==
  IF history = <<>> THEN <<>>
  ELSE (IF Head(history).response THEN MarkersInParts(Head(history).parts, open)
        ELSE <<>>)
       \o MarkersOf(Tail(history), open)

\* a turn was taken in this step
TurnTaken == chat # ChatIdle /\ chat'.turns = chat.turns + 1

\* C26: a run in a chat whose history has no session marker, for which the
\* runner reports a session id s, leaves a history in which findSessionId
\* finds s; from then on /session shows s and every run resumes s.
C26_MarkerGivesSessionBack ==
  [][ TurnTaken =>
        /\ (chat'.last.kind = "run" /\ MarkersOf(chat.history, SESSION_MARKER) = <<>>
              /\ Truthy(chat'.last.reported))
             => findSessionId(chat'.history) = chat'.last.reported
        /\ (chat.first # Undefined /\ chat'.last.kind = "session")
             => chat'.last.parts[3] = Markdown(<<"Session ID">> \o chat.first)
        /\ (chat.first # Undefined /\ chat'.last.kind = "run")
             => chat'.last.resumeSessionId = chat.first ]_vars

\* C27: in a chat whose history has no session marker, /session and
\* /handoff answer 'No Active Session', are handled, run no CLI and open
\* no terminal.
C27_NoSessionNoAction ==
  [][ (TurnTaken /\ chat'.last.kind \in {"session", "handoff"}
         /\ MarkersOf(chat.history, SESSION_MARKER) = <<>>)
        => /\ chat'.last.parts[1] = Markdown(<<"No Active Session">>)
           /\ chat'.last.handled
           /\ ~chat'.last.ranCli
           /\ ~chat'.last.terminal ]_vars

C27_Witness ==
  /\ chat # ChatIdle
  /\ chat.last.kind = "handoff"
  /\ chat.previous.kind = "run"
  /\ chat.previous.reported = Undefined
  /\ MarkersOf(chat.history, SESSION_MARKER) = <<>>
  /\ chat.last.parts[1] = Markdown(<<"No Active Session">>)
  /\ ~chat.last.terminal

\* the agent of the most recent agent marker of a history
MostRecentAgent(history) ==
  LET names == MarkersOf(history, AGENT_MARKER)
  IN IF names = <<>> THEN Undefined ELSE names[Len(names)]

\* C28: a run is given the agent instructions exactly when the request
\* names an agent that is not the agent of the most recent agent marker of
\* the history; a run that follows a run of the same agent is not given
\* them.
C28_InstructionsOncePerAgent ==
  [][ (TurnTaken /\ chat'.last.kind = "run") =>
        /\ chat'.last.passed <=>
             (Truthy(chat'.last.agent)
                /\ chat'.last.agent # MostRecentAgent(chat.history))
        /\ (chat.last.kind = "run" /\ chat.last.agent = chat'.last.agent)
             => ~chat'.last.passed ]_vars

\* the items of the assistant envelope of the case
CaseItems == JSONparse(parse.line).content

\* a tool_use, a tool_result or a text with non-empty text
Qualifies(item) ==
  item.type \in {"tool_use", "tool_result"} \/ (item.type = "text" /\ Truthy(item.text))

\* what handling the parse result does to a fresh run context
HandledAlone(parseResult) ==
  HandleParseResult([fullContent |-> <<>>, extractedSessionId |-> Undefined,
                     delivered |-> <<>>, sidsSeen |-> <<>>, k |-> 0, threw |-> FALSE],
                    parseResult)

\* C36: a Claude assistant envelope with an item that is a tool_use, a
\* tool_result or a non-empty text gives exactly one content event, that of
\* the first such item in array order; the later items give no event and
\* their text is not added to the accumulated content.
C36_FirstQualifyingItemOnly ==
  (parse # ParseIdle /\ parse.kind = "items" /\ Len(parse.results) >= 1) =>
     \A i \in 1..Len(CaseItems) :
        (Qualifies(CaseItems[i]) /\ \A j \in 1..(i-1) : ~Qualifies(CaseItems[j])) =>
           LET item == CaseItems[i]
               h == HandledAlone(parse.results[1])
           IN  /\ Len(h.delivered) = 1
               /\ h.delivered[1].type = item.type
               /\ h.delivered[1].content =
                     IF item.type = "text" THEN item.text
                     ELSE IF item.type = "tool_use"
                          THEN (IF item.name = <<>> THEN <<"t", "o", "o", "l">> ELSE item.name)
                          ELSE item.content
               /\ h.fullContent = IF item.type = "text" THEN item.text ELSE <<>>

\* an envelope whose second item decides and whose third item is a text
C36_Witness ==
  /\ parse # ParseIdle /\ parse.kind = "items" /\ Len(parse.results) >= 1
  /\ Len(CaseItems) = 3
  /\ ~Qualifies(CaseItems[1])
  /\ CaseItems[2].type = "tool_use"
  /\ CaseItems[3].type = "text" /\ CaseItems[3].text = <<"a">>
  /\ parse.results[1].content.type = "tool_use"

\* JSON.stringify({ [name]: { description: name + ' agent', prompt: content } })
AgentsConfigText(name, content) ==
  <<"{">> \o JsonString(name) \o <<":", "{">> \o JsonString(<<"description">>) \o <<":">>
    \o JsonString(name \o <<" agent">>) \o <<",">> \o JsonString(<<"prompt">>) \o <<":">>
    \o JsonString(content) \o <<"}", "}">>

\* C37: for Claude with mode instructions the child's argument after
\* --agent is exactly the instruction name and the one after --agents is
\* exactly the JSON text of the agents configuration, with no quote
\* character added.
C37_AgentValuesUnquoted ==
  (args # ArgsIdle /\ args.phase = "started" /\ args.input.vendor = "claude"
     /\ args.input.options.modeInstructions.present) =>
     LET mi == args.input.options.modeInstructions
         argv == args.argv
     IN  /\ Len(argv) >= PromptStart + 3
         /\ argv[PromptStart] = <<"--agent">>
         /\ argv[PromptStart + 1] = mi.name
         /\ argv[PromptStart + 2] = <<"--agents">>
         /\ argv[PromptStart + 3] = AgentsConfigText(mi.name, mi.content)

\* the content events of the unterminated text left in the stderr buffer
StderrTail == ContentsOf(<<context.stderrBuffer>>, TRUE)

\* C31: when the child has closed (and no callback exception cut a handler
\* short), the content event of a final stderr JSON line without a newline
\* has been delivered, as that of a final stdout line is: every event the
\* two channels carried, the stderr tail included, was delivered.
C31_StderrTailFlushed ==
  (phase = "closed" /\ uncaught = 0 /\ errorEvents = 0) =>
     /\ ContentsOf(<<context.buffer>>, FALSE) # <<>> => delivered # <<>>
     /\ Len(delivered) = Len(expected) + Len(StderrTail)

\* the events among evs whose origin is one of os, in order
RECURSIVE EventsFrom(_, _, _)
EventsFrom(evs, orgs, os) ==
  IF evs = <<>> THEN <<>>
  ELSE (IF Head(orgs) \in os THEN <<Head(evs)>> ELSE <<>>)
       \o EventsFrom(Tail(evs), Tail(orgs), os)

\* the stderr bytes delivered so far
ErrConsumed ==
  SubSeq(Scenarios[scenario].err, 1, Len(Scenarios[scenario].err) - Len(errRest))

\* the events the stdout bytes give when nothing arrives on stderr
StdoutAlone ==
  OneChunk(Consumed, phase = "closed").delivered

\* the events the stderr bytes give when nothing arrives on stdout
StderrAlone ==
  processChunkWithBuffer(ErrConsumed, <<>>,
                         [fullContent |-> <<>>, extractedSessionId |-> Undefined,
                          delivered |-> <<>>, sidsSeen |-> <<>>, k |-> 0, threw |-> FALSE],
                         TRUE).h.delivered

\* no byte of a multi-byte character
SingleByte(bytes) == \A i \in 1..Len(bytes) : bytes[i] \notin {"C3", "A9"}

\* C33: the two line buffers are independent.  Whatever the interleaving
\* of the chunks of the two channels (for single-byte text and a callback
\* that does not throw), the events of each channel are those its bytes
\* give when the other channel is silent.
C33_BuffersIndependent ==
  (phase # "idle" /\ spawnOk /\ throws = 0
     /\ SingleByte(Scenarios[scenario].out) /\ SingleByte(Scenarios[scenario].err)) =>
     /\ EventsFrom(delivered, origins, {"stdout", "flush"}) = StdoutAlone
     /\ EventsFrom(delivered, origins, {"stderr"}) = StderrAlone

\* the stdout buffer holds the first part of a line while the event of a
\* stderr line has been delivered
C33_Witness ==
  /\ phase = "running" /\ scenario = 4 /\ throws = 0
  /\ context.buffer # <<>> /\ outRest # <<>>
  /\ origins = <<"stderr">>

\* C32: when the signal is already aborted at the call of run(), the
\* termination of the spawned child is requested by run().
C32_AbortedSignalStillKills ==
  [][ (phase = "idle" /\ aborted /\ phase' = "running" /\ hasSignal' /\ spawnOk')
         => kills' = <<"SIGTERM">> ]_vars

\* the parts among parts that are equal to part
PartsEqual(parts, part) == { i \in 1..Len(parts) : parts[i] = part }

\* the session markers the handler has written into a history: the parts
\* saveSessionId writes, for the ids a run can report
RECURSIVE WrittenSessionMarkers(_)
WrittenSessionMarkers(history) ==
  IF history = <<>> THEN 0
  ELSE Cardinality({ i \in 1..Len(Head(history).parts) :
                       \E r \in RunResults :
                          /\ Truthy(r.sessionId)
                          /\ Head(history).parts[i] = saveSessionId(r.sessionId) })
       + WrittenSessionMarkers(Tail(history))

\* C34: in one chat at most one session marker is written; every run after
\* the run that wrote it is given the id of that marker as resumeSessionId,
\* whatever session id the resumed run reports.
C34_OneMarkerOneSession ==
  [][ TurnTaken =>
        /\ WrittenSessionMarkers(chat'.history) <= 1
        /\ (chat.first # Undefined /\ chat'.last.kind = "run")
             => chat'.last.resumeSessionId = chat.first ]_vars

\* the run of the turn failed: the error text is the last part written
Failed(outcome) ==
  outcome.parts # <<>> /\ outcome.parts[Len(outcome.parts)] = Markdown(<<"Error:", "e">>)

\* C35: a run writes the agent marker exactly when it passed the agent
\* instructions to the runner, failed or not; and the turn after a failed
\* run that passed the instructions of an agent, made with the same agent,
\* passes none.
C35_MarkerIffInstructionsPassed ==
  [][ (TurnTaken /\ chat'.last.kind = "run") =>
        /\ chat'.last.passed <=>
             (Truthy(chat'.last.agent)
                /\ PartsEqual(chat'.last.parts, saveAgentName(chat'.last.agent)) # {})
        /\ (chat.last.kind = "run" /\ Failed(chat.last) /\ chat.last.passed
               /\ chat'.last.agent = chat.last.agent)
             => ~chat'.last.passed ]_vars

\* C39: a request that names a registered command (doctor, session,
\* handoff, passAgent; each handler returns true) is handled by that
\* command and the generic run of the participant handler is not executed;
\* for a request without a command or with a command that is not
\* registered the generic run is executed exactly once.
C39_HandledCommandSkipsGenericRun ==
  [][ TurnTaken =>
        IF chat'.command \in {"doctor", "session", "handoff", "passAgent"}
        THEN chat'.last.handled /\ chat'.last.generic = 0
        ELSE ~chat'.last.handled /\ chat'.last.generic = 1 ]_vars

\* /passAgent ran the CLI itself and the generic run did not follow
C39_Witness ==
  /\ chat # ChatIdle /\ chat.turns = 2
  /\ chat.command = "passAgent" /\ chat.last.ranCli /\ chat.last.generic = 0
  /\ chat.previous.generic = 1 /\ chat.previous.ranCli

\* a call of executeCommand whose child has been spawned
ExecRunning == exec # ExecIdle /\ exec.phase = "running"

\* the promise keeps the outcome it was settled with
ExecOutcomeKept ==
  (ExecRunning /\ exec.state # "pending") =>
     /\ exec'.state = exec.state
     /\ exec'.value = exec.value
     /\ exec'.by = exec.by

\* SIGTERM is sent once, and exactly when the timeout is the first of the
\* three to occur
ExecKilledIffTimedOut ==
  /\ Len(exec.kills) <= 1
  /\ exec.kills # <<>> <=> (exec.events # <<>> /\ exec.events[1] = "timeout")

\* C38 (as stated): the promise of executeCommand is settled by the first
\* of timeout, 'error' and 'close' to occur and later events do not change
\* the outcome; SIGTERM is sent exactly when the timeout occurs first.
C38_FirstOccurrenceSettles ==
  [][ /\ ExecOutcomeKept
      /\ (exec' # ExecIdle /\ exec'.events # <<>>) =>
            /\ exec'.by = exec'.events[1]
            /\ ExecKilledIffTimedOut' ]_vars

\* C38 (amended): the same, except that when the kill of the timeout fails
\* the 'error' event that kill emits rejects the promise, with the error of
\* the kill, before the timeout's own rejection.
C38_FirstCallSettles ==
  [][ /\ ExecOutcomeKept
      /\ (exec' # ExecIdle /\ exec'.events # <<>>) =>
            /\ exec'.by = IF exec'.events[1] = "timeout" /\ exec'.killFailed
                          THEN "error" ELSE exec'.events[1]
            /\ (exec'.by \in {"timeout", "error"}) => exec'.state = "rejected"
            /\ (exec'.by = "timeout") => exec'.value = TimedOut
            /\ ExecKilledIffTimedOut' ]_vars

\* the timeout fired, the kill went through, and the child then closed
C38_Witness ==
  /\ ExecRunning
  /\ exec.events = <<"timeout", "close">>
  /\ exec.kills = <<"SIGTERM">> /\ ~exec.killFailed
  /\ exec.state = "rejected" /\ exec.value = TimedOut /\ exec.by = "timeout"
  /\ exec.stdout # <<>>

====
